---- MODULE Spec2Model ----
(***************************************************************************)
(* Model of the consensus answering engine, CouncilService                 *)
(* (src/app/services/council_client.py): one answer_question call with     *)
(* its three stages, the backend calls of each stage, and the caller's      *)
(* cancellation of the call; and of the functions checked on their own:    *)
(* its ranking parser and prompt builder, and the intent rule engine,       *)
(* IntentEngine.match (src/app/services/intent_engine.py).                  *)
(*                                                                          *)
(* A text is a sequence of tokens (strings); the token " " is whitespace.   *)
(* A prompt is a sequence of parts, each part a record [k, v] with k the    *)
(* kind of the part and v its text.                                         *)
(***************************************************************************)
EXTENDS Naturals, Sequences, FiniteSets, TLC

\* Number of configured council backends.
NumModels == 3

\* ------------------------------------------------------------------ texts

Alphabet ==
  <<"A", "B", "C", "D", "E", "F", "G", "H", "I", "J", "K", "L", "M",
    "N", "O", "P", "Q", "R", "S", "T", "U", "V", "W", "X", "Y", "Z">>

IsSpace(c) == c = " "

RECURSIVE LStrip(_)
LStrip(t) == IF t # <<>> /\ IsSpace(Head(t)) THEN LStrip(Tail(t)) ELSE t

RECURSIVE RStrip(_)
RStrip(t) ==
  IF t # <<>> /\ IsSpace(t[Len(t)]) THEN RStrip(SubSeq(t, 1, Len(t) - 1)) ELSE t

\* str.strip()
Strip(t) == RStrip(LStrip(t))

\* Python truthiness of a str
Truthy(t) == t # <<>>

RECURSIVE Concat(_)
Concat(ss) == IF ss = <<>> THEN <<>> ELSE Head(ss) \o Concat(Tail(ss))

\* --------------------------------------------------------- configuration

ModelId(i) ==
  CASE i = 1 -> "openai/gpt-4o"
    [] i = 2 -> "google/gemini-2.0-flash-exp"
    [] i = 3 -> "anthropic/claude-3.5-sonnet"
    [] OTHER -> "council/model-" \o ToString(i)

council_models == [i \in 1..NumModels |-> ModelId(i)]

chairman_model == "google/gemini-2.0-flash-exp"

ModelIds == {council_models[i] : i \in 1..NumModels} \cup {chairman_model}

\* The question of the request, and the texts the backends may answer with.
question == <<"q">>

AnswerTexts == {<<" ">>, <<"a">>, <<"b">>}

RankingTexts ==
  { <<"eval", "FINAL RANKING:", "1.", "Response B", "2.", "Response A">>,
    <<"Response A", "is", "best">> }

ChairmanTexts == {<<" ">>, <<" ", "s", " ">>}

NoAnswersMessage == <<"no-answers-from-models">>

NoFinalAnswerMessage == <<"no-final-answer">>

\* ---------------------------------------------------------------- prompts

Part(k, v) == [k |-> k, v |-> v]

system_instruction == Part("system", <<"default-system-instruction">>)

\* json.dumps(metrics): the keys and values of the mapping, in its order
JsonDumps(metrics) ==
  <<"{">> \o Concat([i \in 1..Len(metrics) |->
                       <<metrics[i][1], ":", metrics[i][2]>>]) \o <<"}">>

\* Characters of a previous response that _build_prompt keeps.
ResponseBudget == 200

\* bot_a[:200] + "..." if len(bot_a) > 200 else bot_a
Truncated(bot_a) ==
  IF Len(bot_a) > ResponseBudget
    THEN SubSeq(bot_a, 1, ResponseBudget) \o <<"...">>
    ELSE bot_a

\* the parts appended for one item of conversation_history
HistoryItemParts(idx, hist_item) ==
  IF Truthy(hist_item.user_text) \/ Truthy(hist_item.response_text)
    THEN <<Part("exchange", <<ToString(idx)>>)>>
           \o (IF Truthy(hist_item.user_text)
                 THEN <<Part("user", hist_item.user_text)>> ELSE <<>>)
           \o (IF Truthy(hist_item.response_text)
                 THEN <<Part("bot", Truncated(hist_item.response_text))>> ELSE <<>>)
    ELSE <<>>

\* the block "if conversation_history:"
HistoryParts(conversation_history) ==
  IF conversation_history # <<>>
    THEN <<Part("lit", <<"Previous conversation context:">>)>>
           \o Concat([idx \in 1..Len(conversation_history) |->
                        HistoryItemParts(idx, conversation_history[idx])])
           \o <<Part("lit", <<"---">>)>>
    ELSE <<>>

\* A key the mapping does not hold.
Missing == "<missing>"

\* section.get(key, default)
Get(value, default) == IF value = Missing THEN default ELSE value

\* document_title or topic or document_id or "Section {index}"
SectionTitle(section, index) ==
  IF Get(section.document_title, "") # "" THEN section.document_title
  ELSE IF Get(section.topic, "") # "" THEN section.topic
  ELSE IF Get(section.document_id, "") # "" THEN section.document_id
  ELSE "Section " \o ToString(index)

\* the part appended for one knowledge section: none for a blank excerpt
SectionParts(index, section) ==
  IF Truthy(Strip(section.excerpt))
    THEN <<Part("excerpt",
                <<"[" \o ToString(index) \o "]", SectionTitle(section, index),
                  Get(section.source_file, "document"),
                  "id=" \o Get(section.section_id, ToString(index))>>
                  \o Strip(section.excerpt))>>
    ELSE <<>>

\* the block "if knowledge_sections: ... else: ..."
KnowledgeParts(knowledge_sections) ==
  IF knowledge_sections # <<>>
    THEN <<Part("lit", <<"Relevant knowledge base excerpts:">>)>>
           \o Concat([index \in 1..Len(knowledge_sections) |->
                        SectionParts(index, knowledge_sections[index])])
    ELSE <<Part("lit", <<"Note: No specific knowledge base excerpts were found">>),
           Part("lit", <<"You should use your general knowledge">>)>>

QuestionParts(q) ==
  <<Part("lit", <<"Question:">>), Part("question", q), Part("lit", <<"\n">>)>>

\* "Instructions:", its lines, and the block CRITICAL INSTRUCTIONS
InstructionParts ==
  <<Part("lit", <<"Instructions:">>),
    Part("lit", <<"- Answer the question based on the context provided above">>),
    Part("lit", <<"CRITICAL INSTRUCTIONS:">>)>>

\* (variant: the knowledge excerpts come before the previous exchanges)
BuildPromptKnowledgeFirst(q, metrics, knowledge_sections, conversation_history) ==
  <<Part("lit", <<"Contextual data (JSON):">>), Part("context", JsonDumps(metrics))>>
    \o KnowledgeParts(knowledge_sections)
    \o HistoryParts(conversation_history)
    \o QuestionParts(q)
    \o InstructionParts

\* _build_prompt: the parts it joins, in order
BuildPromptOf(q, metrics, knowledge_sections, conversation_history) ==
  <<Part("lit", <<"Contextual data (JSON):">>), Part("context", JsonDumps(metrics))>>
    \o HistoryParts(conversation_history)
    \o KnowledgeParts(knowledge_sections)
    \o QuestionParts(q)
    \o InstructionParts

\* The metrics of the request; it comes with no knowledge section and no
\* conversation history.
RequestMetrics == << <<"containers", "7">> >>

\* the call of _build_prompt in answer_question
BuildPrompt(q) == BuildPromptOf(q, RequestMetrics, <<>>, <<>>)

Label(i) == "Response " \o Alphabet[i]

\* ------------------------------------------------------------ backend calls

Idle == [st |-> "idle", content |-> <<>>, posts |-> 0, model |-> "", prompt |-> <<>>]

\* _query_model: one POST carrying the messages, in flight
Issue(model, messages) ==
  [st |-> "inflight", content |-> <<>>, posts |-> 1, model |-> model,
   prompt |-> messages]

\* What one POST can come to: an HTTP/transport error, a timeout, a reply
\* whose message content is null, a reply with (possibly empty) content.
Failure(kind) == [st |-> kind, content |-> <<>>]
Reply(t) == [st |-> "ok", content |-> t]

Outcomes(texts) ==
  {Failure("error"), Failure("timeout"), Failure("null")}
    \cup {Reply(t) : t \in texts \cup {<<>>}}

\* Stage 2 settles with fewer kinds of unusable reply: the test that drops
\* them is the one stage 1 and stage 3 apply.
RankingOutcomes ==
  {Failure("error"), Failure("timeout")} \cup {Reply(t) : t \in RankingTexts}

\* (variant: a timed-out POST is sent once more)
QueryModelSettleRetry(call, outcome) ==
  IF outcome.st = "timeout" /\ call.posts < 2
    THEN [call EXCEPT !.posts = call.posts + 1]
    ELSE [call EXCEPT !.st = outcome.st, !.content = outcome.content,
                      !.prompt = <<>>]

\* (variant: _query_model has no except clause, so that an HTTP error or a
\* timeout leaves it as an exception)
QueryModelSettleRaising(call, outcome) ==
  [call EXCEPT !.st = IF outcome.st \in {"error", "timeout"}
                        THEN "raised" ELSE outcome.st,
               !.content = outcome.content, !.prompt = <<>>]

\* _query_model's return for an outcome: the except branch logs and returns
\* None, with no second POST.
QueryModelSettle(call, outcome) ==
  [call EXCEPT !.st = outcome.st, !.content = outcome.content, !.prompt = <<>>]

\* (variant: any reply counts, whatever its content)
UsableAnyReply(call) == call.st = "ok"

\* the test  "response and response.get('content')"
Usable(call) == call.st = "ok" /\ Truthy(call.content)

\* The outcomes a call can hold before its stage reads it; "raised" is an
\* exception that left _query_model.
RawOutcomes == {"error", "timeout", "null", "ok", "raised"}

\* The call has come to an end other than cancellation: it holds its outcome,
\* or the stage has consumed it ("used", "dropped"), or the frame that held it
\* is gone ("discarded").
Settled(call) == call.st \in RawOutcomes \cup {"used", "dropped", "discarded"}

\* The awaited call ended with an exception, which the await re-raises
\* (asyncio.gather with return_exceptions=True hands it over as a result
\* instead, and the stage's loop skips it).
Raised(call) == call.st = "raised"

\* A settled call after the stage's loop has read it: the loop appends a
\* usable reply to the results and skips any other.
Forget(call) ==
  IF call.st \in RawOutcomes
    THEN [call EXCEPT !.st = IF Usable(call) THEN "used" ELSE "dropped",
                      !.content = <<>>]
    ELSE call

\* A settled call whose outcome is lost when the exception unwinds the frames.
Discard(call) ==
  IF call.st \in RawOutcomes
    THEN [call EXCEPT !.st = "discarded", !.content = <<>>]
    ELSE call

\* (variant: the stage goes on as soon as one call has settled)
AnySettled(calls) == \E i \in DOMAIN calls : Settled(calls[i])

\* asyncio.gather without cancellation: it resumes the stage when every
\* call has settled.
AllSettled(calls) == \A i \in DOMAIN calls : Settled(calls[i])

\* asyncio.gather when the awaiting task is cancelled: every child that has
\* not completed is cancelled, and CancelledError (not an Exception) passes
\* the except clause of _query_model.
CancelCall(call) ==
  IF call.st = "inflight"
    THEN [call EXCEPT !.st = "cancelled", !.prompt = <<>>]
    ELSE Discard(call)

\* (variant: the children are left running, as under asyncio.shield)
GatherCancelShielded(calls) == calls

GatherCancel(calls) == [i \in DOMAIN calls |-> CancelCall(calls[i])]

VARIABLES
  pc,              \* position of answer_question
  r1,              \* stage-1 calls, by configuration index
  r2,              \* stage-2 calls, by configuration index
  r3,              \* the chairman call
  arrival,         \* configuration indices of the usable stage-1 replies, in
                   \* arrival order (kept until the first stage-2 call settles)
  stage1_results,
  label_to_model,
  stage2_results,
  result,          \* the text answer_question returns
  provenance,      \* which return statement produced it
  fpc,             \* position of the function call studied on its own:
                   \* "idle", "called", "returned"
  args,            \* its arguments
  ret,             \* its return value
  intent_engine,   \* application.state.intent_engine: the instance
                   \* attributes of the one IntentEngine all requests share
  served,          \* the match calls that have returned, in order
  council_service, \* application.state.council_service: the instance
                   \* attributes of the one CouncilService all requests share
  tasks,           \* the answer_question calls running on it at once: where
                   \* each one stands, and what its own backends replied
  frames           \* the local variables of the running answer_question calls

\* the variables of an answer_question call
cvars ==
  <<pc, r1, r2, r3, arrival, stage1_results, label_to_model, stage2_results,
    result, provenance>>

\* the variables of a function call studied on its own
fvars == <<fpc, args, ret>>

\* the variables of the application state all requests share: the engine,
\* the council service and the calls running on it
svars == <<intent_engine, served, council_service, tasks, frames>>

vars == <<cvars, fvars, svars>>

Models == 1..NumModels

\* the service constructed, answer_question not yet called
CouncilIdle ==
  /\ pc = "start"
  /\ r1 = [i \in Models |-> Idle]
  /\ r2 = [i \in Models |-> Idle]
  /\ r3 = Idle
  /\ arrival = <<>>
  /\ stage1_results = <<>>
  /\ label_to_model = <<>>
  /\ stage2_results = <<>>
  /\ result = <<>>
  /\ provenance = "none"

\* no function call studied on its own
FunctionIdle == fpc = "idle" /\ args = <<>> /\ ret = <<>>

\* IntentEngine(): the class has no __init__ and sets no attribute
NewEngine == <<>>

\* CouncilService(api_key): the attributes __init__ sets
NewCouncilService ==
  [api_key |-> "key", api_url |-> "https://openrouter.ai/api/v1/chat/completions",
   council_models |-> council_models, chairman_model |-> chairman_model]

\* The two answer_question calls that run at once on the service.
Calls == {"first", "second"}

\* a call that has not been made
NoTask == [pc |-> "idle"]

\* (variant: the calls keep their local variables in one place on the service)
FrameOnService(c) == "self"

\* the frame of a call: each call of the coroutine function has its own
Frame(c) == c

\* a frame that does not exist (before the call and after its return)
NoFrame == [live |-> FALSE]

\* the engine and the council service constructed, no request served or
\* running
EngineIdle ==
  /\ intent_engine = NewEngine
  /\ served = <<>>
  /\ council_service = NewCouncilService
  /\ tasks = [c \in Calls |-> NoTask]
  /\ frames = [f \in {Frame(c) : c \in Calls} |-> NoFrame]

Init == CouncilIdle /\ FunctionIdle /\ EngineIdle

\* ------------------------------------------------------------------ stage 1

Stage1Messages(prompt) == <<system_instruction>> \o prompt

\* (variant: the results are collected as the calls complete)
Stage1ResultsByArrival(calls) ==
  [k \in 1..Len(arrival) |->
     [model |-> council_models[arrival[k]], response |-> calls[arrival[k]].content]]

\* (variant: one failed call empties the round)
Stage1ResultsAllOrNothing(calls) ==
  IF \A i \in Models : Usable(calls[i])
    THEN [i \in Models |->
            [model |-> council_models[i], response |-> calls[i].content]]
    ELSE <<>>

\* the loop over zip(council_models, responses) of _stage1_collect_responses
Stage1Results(calls) ==
  LET F[i \in 0..NumModels] ==
        IF i = 0 THEN <<>>
        ELSE IF Usable(calls[i])
          THEN Append(F[i - 1],
                      [model |-> council_models[i], response |-> calls[i].content])
          ELSE F[i - 1]
  IN F[NumModels]

\* (variant: a single result also ends the request after stage 1)
NoResultsOrSingle(s1) == Len(s1) <= 1

\* the test  "if not stage1_results"  of answer_question
NoResults(s1) == s1 = <<>>

\* tasks of _stage1_collect_responses: one call per council model
Stage1Tasks(messages) == [i \in Models |-> Issue(council_models[i], messages)]

\* answer_question up to its first await: the prompt is built and stage 1
\* issues one call per council model.
Start ==
  /\ pc = "start"
  /\ pc' = "round1"
  /\ r1' = Stage1Tasks(Stage1Messages(BuildPrompt(question)))
  /\ UNCHANGED <<r2, r3, arrival, stage1_results, label_to_model,
                 stage2_results, result, provenance>>
  /\ UNCHANGED <<fvars, svars>>

\* One stage-1 call settles.
Settle1(i, outcome) ==
  /\ pc = "round1"
  /\ r1[i].st = "inflight"
  /\ r1' = [r1 EXCEPT ![i] = QueryModelSettle(r1[i], outcome)]
  /\ arrival' = IF Usable(r1'[i]) THEN Append(arrival, i) ELSE arrival
  /\ UNCHANGED <<pc, r2, r3, stage1_results, label_to_model, stage2_results,
                 result, provenance>>
  /\ UNCHANGED <<fvars, svars>>

\* ------------------------------------------------------------------ stage 2

\* (variant: every response gets the first label)
LabelToModelFirstLabel(s1) ==
  IF s1 = <<>> THEN <<>>
  ELSE [l \in {Label(1)} |-> s1[Len(s1)].model]

\* label_to_model of _stage2_collect_rankings
LabelToModel(s1) ==
  [l \in {Label(i) : i \in 1..Len(s1)} |->
     LET i == CHOOSE j \in 1..Len(s1) : Label(j) = l IN s1[i].model]

\* (variant: each labelled response also names its model)
ResponsesTextNamed(s1) ==
  Concat([i \in 1..Len(s1) |->
            <<Part("label", <<Label(i)>>), Part("model", <<s1[i].model>>),
              Part("text", s1[i].response)>>])

\* responses_text: "Response X:" and the response, for each stage-1 result
ResponsesText(s1) ==
  Concat([i \in 1..Len(s1) |->
            <<Part("label", <<Label(i)>>), Part("text", s1[i].response)>>])

\* ranking_prompt
RankingPrompt(q, original_prompt, s1) ==
  <<Part("lit", <<"You are evaluating different responses">>), Part("question", q)>>
    \o original_prompt
    \o <<Part("lit", <<"Here are the responses (anonymized):">>)>>
    \o ResponsesText(s1)
    \o <<Part("lit", <<"Your task: evaluate, then FINAL RANKING:">>)>>

Stage2Messages(q, original_prompt, s1) ==
  <<system_instruction>> \o RankingPrompt(q, original_prompt, s1)

IsLabel(tok) == \E i \in 1..Len(Alphabet) : tok = Label(i)

IsNumber(tok) == tok \in {"1.", "2.", "3.", "4.", "5."}

Sentinel == "FINAL RANKING:"

SentinelAt(t) == {i \in 1..Len(t) : t[i] = Sentinel}

Min(S) == CHOOSE x \in S : \A y \in S : x <= y

\* parts[1] of ranking_text.split("FINAL RANKING:")
RankingSection(t) ==
  LET first == Min(SentinelAt(t))
      later == {i \in SentinelAt(t) : i > first}
      stop  == IF later = {} THEN Len(t) ELSE Min(later) - 1
  IN SubSeq(t, first + 1, stop)

\* re.findall(r"Response [A-Z]", section)
LabelsIn(sec) == SelectSeq(sec, IsLabel)

\* the labels of re.findall(r"\d+\.\s*Response [A-Z]", section)
NumberedLabelsIn(sec) ==
  LET Numbered(j) ==
        /\ IsLabel(sec[j])
        /\ \E i \in 1..(j - 1) :
             /\ IsNumber(sec[i])
             /\ \A k \in (i + 1)..(j - 1) : IsSpace(sec[k])
      F[j \in 0..Len(sec)] ==
        IF j = 0 THEN <<>>
        ELSE IF Numbered(j) THEN Append(F[j - 1], sec[j]) ELSE F[j - 1]
  IN F[Len(sec)]

\* (variant: a text without the sentinel has no ranking)
ParseRankingSentinelOnly(t) ==
  IF SentinelAt(t) # {}
    THEN LET sec == RankingSection(t) IN
         IF NumberedLabelsIn(sec) # <<>> THEN NumberedLabelsIn(sec) ELSE LabelsIn(sec)
    ELSE <<>>

\* _parse_ranking_from_text
ParseRankingFromText(t) ==
  IF SentinelAt(t) # {}
    THEN LET sec == RankingSection(t) IN
         IF NumberedLabelsIn(sec) # <<>> THEN NumberedLabelsIn(sec) ELSE LabelsIn(sec)
    ELSE LabelsIn(t)

\* (variant: one failed stage-2 call discards the rankings of the round)
Stage2ResultsAllOrNothing(calls) ==
  IF \A i \in Models : Usable(calls[i])
    THEN [i \in Models |->
            [model |-> council_models[i],
             ranking |-> calls[i].content,
             parsed_ranking |-> ParseRankingFromText(calls[i].content)]]
    ELSE <<>>

\* the loop over zip(council_models, responses) of _stage2_collect_rankings
Stage2Results(calls) ==
  LET F[i \in 0..NumModels] ==
        IF i = 0 THEN <<>>
        ELSE IF Usable(calls[i])
          THEN Append(F[i - 1],
                      [model |-> council_models[i],
                       ranking |-> calls[i].content,
                       parsed_ranking |-> ParseRankingFromText(calls[i].content)])
          ELSE F[i - 1]
  IN F[NumModels]

\* (variant: stage 2 asks only the models whose stage-1 answer was kept)
Stage2TasksOfSurvivors(messages) ==
  [i \in Models |->
     IF Usable(r1[i]) THEN Issue(council_models[i], messages)
     ELSE [Idle EXCEPT !.st = "dropped"]]

\* tasks of _stage2_collect_rankings: one call per council model
Stage2Tasks(messages) == [i \in Models |-> Issue(council_models[i], messages)]

\* answer_question resumes after stage 1 with no result and returns.
Stage1Empty ==
  /\ pc = "round1"
  /\ AllSettled(r1)
  /\ NoResults(Stage1Results(r1))
  /\ pc' = "done"
  /\ arrival' = <<>>
  /\ stage1_results' = Stage1Results(r1)
  /\ result' = NoAnswersMessage
  /\ provenance' = "none-available"
  /\ UNCHANGED <<r1, r2, r3, label_to_model, stage2_results>>
  /\ UNCHANGED <<fvars, svars>>

\* answer_question resumes after stage 1 with results: stage 2 labels them,
\* builds the ranking prompt and issues one call per council model.
Stage2Start ==
  /\ pc = "round1"
  /\ AllSettled(r1)
  /\ ~NoResults(Stage1Results(r1))
  /\ pc' = "round2"
  /\ stage1_results' = Stage1Results(r1)
  /\ label_to_model' = LabelToModel(stage1_results')
  /\ r1' = [i \in Models |-> Forget(r1[i])]
  /\ r2' = Stage2Tasks(Stage2Messages(question, BuildPrompt(question),
                                       stage1_results'))
  /\ UNCHANGED <<r3, arrival, stage2_results, result, provenance>>
  /\ UNCHANGED <<fvars, svars>>

\* One stage-2 call settles.
Settle2(i, outcome) ==
  /\ pc = "round2"
  /\ r2[i].st = "inflight"
  /\ r2' = [r2 EXCEPT ![i] = QueryModelSettle(r2[i], outcome)]
  /\ arrival' = <<>>
  /\ UNCHANGED <<pc, r1, r3, stage1_results, label_to_model,
                 stage2_results, result, provenance>>
  /\ UNCHANGED <<fvars, svars>>

\* ------------------------------------------------------------------ stage 3

\* (variant: each response is shown with its model and its stage-2 label)
Stage1TextLabelled(s1) ==
  Concat([i \in 1..Len(s1) |->
            <<Part("model", <<s1[i].model>>), Part("label", <<Label(i)>>),
              Part("text", s1[i].response)>>])

\* stage1_text: "Model:" and "Response:" for each stage-1 result
Stage1Text(s1) ==
  Concat([i \in 1..Len(s1) |->
            <<Part("model", <<s1[i].model>>), Part("text", s1[i].response)>>])

\* stage2_text: "Model:" and "Ranking:" for each stage-2 result
Stage2Text(s2) ==
  Concat([i \in 1..Len(s2) |->
            <<Part("model", <<s2[i].model>>), Part("ranking", s2[i].ranking)>>])

\* chairman_prompt
ChairmanPrompt(q, original_prompt, s1, s2) ==
  <<Part("lit", <<"You are the Chairman of an LLM Council">>), Part("question", q)>>
    \o original_prompt
    \o <<Part("lit", <<"STAGE 1 - Individual Responses:">>)>>
    \o Stage1Text(s1)
    \o <<Part("lit", <<"STAGE 2 - Peer Rankings:">>)>>
    \o Stage2Text(s2)
    \o <<Part("lit", <<"Your task as Chairman">>)>>

Stage3Messages(q, original_prompt, s1, s2) ==
  <<system_instruction>> \o ChairmanPrompt(q, original_prompt, s1, s2)

LabelIndex(l) == CHOOSE i \in 1..Len(Alphabet) : Label(i) = l

\* (variant: the fallback is the answer the first parsed ranking puts first)
FinalResponseTopRanked(response, s1, s2) ==
  IF ~Usable(response)
    THEN IF s1 = <<>> THEN NoFinalAnswerMessage
         ELSE IF s2 # <<>> /\ s2[1].parsed_ranking # <<>>
                   /\ LabelIndex(s2[1].parsed_ranking[1]) <= Len(s1)
           THEN s1[LabelIndex(s2[1].parsed_ranking[1])].response
           ELSE s1[1].response
    ELSE Strip(response.content)

\* the return statements of _stage3_synthesize_final
\* (stage2_results is a parameter of the function and is not read here)
FinalResponse(response, s1, s2) ==
  IF ~Usable(response)
    THEN IF s1 # <<>> THEN s1[1].response ELSE NoFinalAnswerMessage
    ELSE Strip(response.content)

\* the return statement taken, in the terms of FinalAnswer.provenance
FinalProvenance(response, s1) ==
  IF ~Usable(response)
    THEN IF s1 # <<>> THEN "best-ranked-fallback" ELSE "no-final-answer"
    ELSE "synthesized"

\* answer_question resumes after stage 2: stage 3 builds the chairman prompt
\* and issues the chairman call.
Stage3Start ==
  /\ pc = "round2"
  /\ AllSettled(r2)
  /\ pc' = "round3"
  /\ stage2_results' = Stage2Results(r2)
  /\ r2' = [i \in Models |-> Forget(r2[i])]
  /\ r3' = Issue(chairman_model,
                 Stage3Messages(question, BuildPrompt(question), stage1_results,
                                stage2_results'))
  /\ UNCHANGED <<r1, arrival, stage1_results, label_to_model, result, provenance>>
  /\ UNCHANGED <<fvars, svars>>

\* The chairman call settles.
Settle3(outcome) ==
  /\ pc = "round3"
  /\ r3.st = "inflight"
  /\ r3' = QueryModelSettle(r3, outcome)
  /\ UNCHANGED <<pc, r1, r2, arrival, stage1_results, label_to_model,
                 stage2_results, result, provenance>>
  /\ UNCHANGED <<fvars, svars>>

\* answer_question resumes after the chairman call and returns; an
\* exception re-raised by the await would leave answer_question, which has no
\* handler of its own.
Finish ==
  /\ pc = "round3"
  /\ Settled(r3)
  /\ pc' = IF Raised(r3) THEN "raised" ELSE "done"
  /\ result' = IF Raised(r3) THEN result
                ELSE FinalResponse(r3, stage1_results, stage2_results)
  /\ provenance' = IF Raised(r3) THEN provenance
                    ELSE FinalProvenance(r3, stage1_results)
  /\ UNCHANGED <<r1, r2, r3, arrival, stage1_results, label_to_model,
                 stage2_results>>
  /\ UNCHANGED <<fvars, svars>>

\* ------------------------------------------------------------ cancellation

\* The caller cancels the task running answer_question: CancelledError is
\* raised at the current await and unwinds answer_question, which has no
\* handler for it.
Cancel ==
  /\ pc \in {"start", "round1", "round2", "round3"}
  /\ pc' = "cancelled"
  /\ r1' = GatherCancel(r1)
  /\ r2' = GatherCancel(r2)
  /\ r3' = CancelCall(r3)
  /\ arrival' = <<>>
  /\ stage1_results' = <<>>
  /\ label_to_model' = <<>>
  /\ stage2_results' = <<>>
  /\ UNCHANGED <<result, provenance>>
  /\ UNCHANGED <<fvars, svars>>

Next ==
  \/ Start
  \/ \E i \in Models, o \in Outcomes(AnswerTexts) : Settle1(i, o)
  \/ Stage1Empty
  \/ Stage2Start
  \/ \E i \in Models, o \in RankingOutcomes : Settle2(i, o)
  \/ Stage3Start
  \/ \E o \in Outcomes(ChairmanTexts) : Settle3(o)
  \/ Finish
  \/ Cancel

Spec == Init /\ [][Next]_vars

\* =================================================================== claims

\* Configuration indices of the backends with a usable stage-1 answer.
Survivors == {i \in Models : Usable(r1[i]) \/ r1[i].st = "used"}

\* Past stage 1: answer_question has read the stage-1 results.
PastRound1 == pc \in {"round2", "round3", "done"}

Round2Posts == {r2[i].posts : i \in Models}

\* The k-th survivor in configuration order.
RECURSIVE Ascending(_)
Ascending(S) ==
  IF S = {} THEN <<>>
  ELSE LET m == CHOOSE x \in S : \A y \in S : x <= y IN <<m>> \o Ascending(S \ {m})

\* C1 (as stated): when exactly one backend gave a usable stage-1 answer,
\* no stage-2 call and no chairman call is issued, and the call returns that
\* answer with provenance single-backend.
C1_SingleAnswerShortCircuit ==
  (PastRound1 /\ Cardinality(Survivors) = 1) =>
    /\ Round2Posts = {0}
    /\ r3.posts = 0
    /\ pc = "done" =>
         /\ result = stage1_results[1].response
         /\ provenance = "single-backend"

\* C1 (amended): when exactly one backend gave a usable stage-1 answer, the
\* call still issues one stage-2 call to every council model and then one
\* chairman call; it returns the chairman's trimmed text when the chairman
\* replies with content, and otherwise that single stage-1 answer.
C1_SingleAnswerRunsAllRounds ==
  (PastRound1 /\ Cardinality(Survivors) = 1) =>
    /\ Len(stage1_results) = 1
    /\ Round2Posts = {1}
    /\ pc \in {"round3", "done"} => r3.posts = 1
    /\ pc = "done" =>
         result = IF Usable(r3) THEN Strip(r3.content)
                                ELSE stage1_results[1].response

\* A finished call in which one backend answered and the chairman synthesized.
C1_Witness ==
  /\ pc = "done"
  /\ Cardinality(Survivors) = 1
  /\ Round2Posts = {1}
  /\ r3.posts = 1
  /\ provenance = "synthesized"

\* C2: when no backend gives a usable stage-1 answer (error, timeout, null
\* or empty content), the call returns the none-available message at once,
\* with no stage-2 call and no chairman call; stages 2 and 3 are entered only
\* with at least one usable answer in hand.
C2_NoAnswersReturnsAtOnce ==
  /\ (PastRound1 /\ Survivors = {}) =>
       /\ pc = "done"
       /\ result = NoAnswersMessage
       /\ provenance = "none-available"
       /\ Round2Posts = {0}
       /\ r3.posts = 0
  /\ (Round2Posts # {0} \/ r3.posts # 0) /\ pc # "cancelled" =>
       /\ stage1_results # <<>>
       /\ \A k \in 1..Len(stage1_results) : Truthy(stage1_results[k].response)

\* A finished call whose stage-1 calls all failed, in more than one way.
C2_Witness ==
  /\ pc = "done"
  /\ provenance = "none-available"
  /\ \E i, j \in Models :
       r1[i].st = "timeout" /\ r1[j].st = "ok" /\ r1[j].content = <<>>
  /\ Round2Posts = {0}
  /\ r3.posts = 0

\* C3: with at least three backends of which some fail in stage 1 and at
\* least two succeed, the call runs stage 2 and stage 3 on exactly the
\* survivors' answers, and when the chairman replies with content the call
\* returns the chairman's (trimmed) text, provenance synthesized.
C3_SurvivorsReachSynthesis ==
  (PastRound1 /\ NumModels >= 3 /\ Cardinality(Survivors) >= 2
     /\ Survivors # Models) =>
    /\ [k \in 1..Len(stage1_results) |-> stage1_results[k].model]
         = [k \in 1..Cardinality(Survivors) |-> council_models[Ascending(Survivors)[k]]]
    /\ Round2Posts = {1}
    /\ \A i \in Models : r2[i].st = "inflight" =>
         r2[i].prompt = Stage2Messages(question, BuildPrompt(question), stage1_results)
    /\ pc \in {"round3", "done"} => r3.posts = 1
    /\ r3.st = "inflight" =>
         r3.prompt = Stage3Messages(question, BuildPrompt(question),
                                    stage1_results, stage2_results)
    /\ (pc = "done" /\ Usable(r3)) =>
         /\ result = Strip(r3.content)
         /\ provenance = "synthesized"

\* A finished, synthesized call in which all backends but one had answered.
C3_Witness ==
  /\ pc = "done"
  /\ Cardinality(Survivors) = NumModels - 1
  /\ Usable(r3)
  /\ Truthy(result)
  /\ provenance = "synthesized"

C5_LabelsInArrivalOrder ==
  (pc = "round2" /\ Len(arrival) = Len(stage1_results)) =>
    \A k \in 1..Len(arrival) :
      label_to_model[Label(k)] = council_models[arrival[k]]

\* C5 (amended): the labels follow configuration order: for every
\* interleaving of the stage-1 completions, the k-th backend in configuration
\* order among those with a usable stage-1 answer is labelled with the k-th
\* letter ("Response A", "Response B", ...).
C5_LabelsInConfigurationOrder ==
  (PastRound1 /\ Survivors # {}) =>
    /\ DOMAIN label_to_model = {Label(k) : k \in 1..Cardinality(Survivors)}
    /\ \A k \in 1..Cardinality(Survivors) :
         /\ label_to_model[Label(k)] = council_models[Ascending(Survivors)[k]]
         /\ stage1_results[k].model = label_to_model[Label(k)]

\* Stage 2 has labelled answers of which a later-configured one arrived first.
C5_Witness ==
  /\ pc = "round2"
  /\ Len(arrival) >= 2
  /\ arrival[1] > arrival[2]
  /\ label_to_model[Label(1)] = council_models[arrival[2]]

TokensOf(prompt) ==
  UNION {{prompt[j].v[t] : t \in 1..Len(prompt[j].v)} : j \in 1..Len(prompt)}

NamesNoModel(prompt) ==
  /\ \A j \in 1..Len(prompt) : prompt[j].k # "model"
  /\ TokensOf(prompt) \cap ModelIds = {}

\* Other assignments of backend ids to n answers: the council's ids and one
\* foreign id, taken in rotation from each starting point.
IdPool == council_models \o <<"other/model">>

Renamings(n) ==
  {[k \in 1..n |-> IdPool[((k + d) % Len(IdPool)) + 1]] : d \in 0..(Len(IdPool) - 1)}

\* The stage-1 results with their models replaced by f[1], f[2], ...
Renamed(s1, f) ==
  [k \in 1..Len(s1) |-> [model |-> f[k], response |-> s1[k].response]]

\* C6: the messages of a stage-2 call name no backend, and they are the
\* messages any other assignment of backend ids to the same answer texts
\* would have produced.
C6_RankingPromptAnonymous ==
  \A i \in Models : r2[i].st = "inflight" =>
    /\ NamesNoModel(r2[i].prompt)
    /\ \A f \in Renamings(Len(stage1_results)) :
         Stage2Messages(question, BuildPrompt(question),
                        Renamed(stage1_results, f)) = r2[i].prompt

\* A stage-2 call in flight with the answers of two or more backends.
C6_Witness ==
  /\ pc = "round2"
  /\ \E i \in Models : r2[i].st = "inflight"
  /\ Len(stage1_results) >= 2
  /\ stage1_results[1].model # stage1_results[2].model

InFlight == {c \in {r1[i] : i \in Models} \cup {r2[i] : i \in Models} \cup {r3} :
               c.st = "inflight"}

\* A label part next to the model part the mapping pairs it with.
ExposesPairing(prompt) ==
  \E j \in 1..(Len(prompt) - 1) : \E l \in DOMAIN label_to_model :
    {prompt[j], prompt[j + 1]}
      = {Part("label", <<l>>), Part("model", <<label_to_model[l]>>)}

TextExposesPairing(t) ==
  \E l \in DOMAIN label_to_model :
    \E a, b \in 1..Len(t) : t[a] = l /\ t[b] = label_to_model[l]

\* C7: no messages sent to a backend in any stage, and no returned text,
\* hold a label together with the backend id the mapping pairs it with.
C7_MappingNeverExposed ==
  /\ \A c \in InFlight : ~ExposesPairing(c.prompt)
  /\ ~TextExposesPairing(result)

\* The chairman call in flight, carrying two answers and a ranking.
C7_Witness ==
  /\ r3.st = "inflight"
  /\ Len(stage1_results) >= 2
  /\ stage2_results # <<>>
  /\ DOMAIN label_to_model # {}
  /\ \E j \in 1..Len(r3.prompt) : r3.prompt[j].k = "model"

\* C8: no stage-2 call exists before every stage-1 call has settled, and no
\* chairman call before every stage-2 call has settled; a stage's results
\* are formed only from a stage whose calls have all settled.
C8_RoundsSequential ==
  /\ (\E i \in Models : r2[i].st # "idle") => \A j \in Models : Settled(r1[j])
  /\ r3.st # "idle" => \A j \in Models : Settled(r1[j]) /\ Settled(r2[j])
  /\ stage1_results # <<>> => \A j \in Models : Settled(r1[j])
  /\ stage2_results # <<>> => \A j \in Models : Settled(r2[j])

\* The chairman call in flight after both stages dropped a failed call.
C8_Witness ==
  /\ pc = "round3"
  /\ r3.st = "inflight"
  /\ \E i, j \in Models : r1[i].st = "dropped" /\ r2[j].st = "dropped"

SumPosts(calls) ==
  LET F[i \in 0..NumModels] == IF i = 0 THEN 0 ELSE F[i - 1] + calls[i].posts
  IN F[NumModels]

TotalPosts == SumPosts(r1) + SumPosts(r2) + r3.posts

C9_AtMostOncePerRound ==
  /\ \A i \in Models : r1[i].posts <= 1 /\ r2[i].posts <= 1
  /\ r3.posts <= 1
  /\ TotalPosts <= 2 * NumModels + 1

\* A timed-out call stays as it is until the stage drops it, as a failed one.
C9_TimeoutIsDropped ==
  /\ \A i \in Models :
       /\ r1[i].st \in {"timeout", "error"} =>
            /\ r1'[i].st \in {r1[i].st, "dropped", "discarded"}
            /\ r1'[i].posts = r1[i].posts
       /\ r2[i].st \in {"timeout", "error"} =>
            /\ r2'[i].st \in {r2[i].st, "dropped", "discarded"}
            /\ r2'[i].posts = r2[i].posts
  /\ r3.st \in {"timeout", "error"} =>
       /\ r3'.st \in {r3.st, "discarded"}
       /\ r3'.posts = r3.posts
       /\ pc' = "done" => result' = stage1_results[1].response

\* C9: a call that times out is dropped like any other failed call and is
\* not retried: every backend is called at most once in stage 1 and at most
\* once in stage 2, the chairman at most once, 2N+1 calls at most.
C9_TimeoutNeverRetried == []C9_AtMostOncePerRound /\ [][C9_TimeoutIsDropped]_vars

\* A finished call whose chairman call timed out, after 2N+1 calls in all.
C9_Witness ==
  /\ pc = "done"
  /\ r3.st = "timeout"
  /\ TotalPosts = 2 * NumModels + 1
  /\ provenance = "best-ranked-fallback"

C10_NothingInFlight == pc = "cancelled" => InFlight = {}

C10_CancelStep ==
  /\ (pc # "cancelled" /\ pc' = "cancelled") =>
       /\ \A i \in Models :
            /\ r1[i].st = "inflight" => r1'[i].st = "cancelled"
            /\ r2[i].st = "inflight" => r2'[i].st = "cancelled"
       /\ r3.st = "inflight" => r3'.st = "cancelled"
  /\ pc = "cancelled" =>
       /\ pc' = "cancelled"
       /\ TotalPosts' = TotalPosts

\* C10: when the caller cancels the call, every backend call in flight is
\* cancelled, and afterwards no stage starts and no backend call is made.
C10_CancelStopsEverything == []C10_NothingInFlight /\ [][C10_CancelStep]_vars

\* Cancelled in stage 2 with one ranking call settled and one cut short.
C10_Witness ==
  /\ pc = "cancelled"
  /\ \E i, j \in Models : r2[i].st = "cancelled" /\ r2[j].st = "discarded"
  /\ r3.st = "idle"

IsText(t) == t \in Seq(STRING)

\* C11: answer_question never raises to its caller because of what the
\* backends do: whichever way the calls of the three stages settle (reply,
\* HTTP error, timeout, empty or null content, ranking text without a ranking
\* section), no exception leaves it, and when it returns it returns a text,
\* by one of its return statements.
C11_NeverRaises ==
  /\ pc # "raised"
  /\ pc = "done" =>
       /\ IsText(result)
       /\ provenance \in {"none-available", "best-ranked-fallback", "synthesized"}

\* The chairman call failed after a stage-1 call and a stage-2 call were
\* dropped and a ranking came without the sentinel, and the call returned.
C11_Witness ==
  /\ pc = "done"
  /\ r3.st \in {"error", "timeout"}
  /\ \E i, j \in Models : r1[i].st = "dropped" /\ r2[j].st = "dropped"
  /\ \E k \in 1..Len(stage2_results) : SentinelAt(stage2_results[k].ranking) = {}

\* ---------------------------------------------------------------- progress

\* The steps of a call that its caller leaves to run to the end.
NextLive ==
  \/ Start
  \/ \E i \in Models, o \in Outcomes(AnswerTexts) : Settle1(i, o)
  \/ Stage1Empty
  \/ Stage2Start
  \/ \E i \in Models, o \in RankingOutcomes : Settle2(i, o)
  \/ Stage3Start
  \/ \E o \in Outcomes(ChairmanTexts) : Settle3(o)
  \/ Finish

\* A call that is not cancelled: every POST settles (the HTTP client's
\* timeout of timeout_seconds bounds it) and the event loop resumes
\* answer_question once the calls it awaits have settled, so a step is taken
\* as long as one is possible.
LiveSpec == Init /\ [][NextLive]_vars /\ WF_vars(NextLive)

\* C12 (as stated): a call ends in Done along Start -> Round1 -> Done when
\* stage 1 gave no answer or exactly one, and along Start -> Round1 -> Round2
\* -> Round3 -> Done only when it gave several.
C12_PathsAsStated ==
  /\ <>(pc = "done")
  /\ [][pc' # pc =>
          \/ pc = "start" /\ pc' = "round1"
          \/ pc = "round1" /\ pc' = "done" /\ Cardinality(Survivors) <= 1
          \/ pc = "round1" /\ pc' = "round2" /\ Cardinality(Survivors) >= 2
          \/ pc = "round2" /\ pc' = "round3"
          \/ pc = "round3" /\ pc' = "done"]_vars

\* C12 (amended): given that every backend call settles, a call that is not
\* cancelled eventually reaches Done, and only along Start -> Round1 -> Done
\* (no usable stage-1 answer) or Start -> Round1 -> Round2 -> Round3 -> Done
\* (one usable stage-1 answer or more); no position is entered twice.
C12_PathsToDone ==
  /\ <>(pc = "done")
  /\ [][pc' # pc =>
          \/ pc = "start" /\ pc' = "round1"
          \/ pc = "round1" /\ pc' = "done" /\ Survivors = {}
          \/ pc = "round1" /\ pc' = "round2" /\ Survivors # {}
          \/ pc = "round2" /\ pc' = "round3"
          \/ pc = "round3" /\ pc' = "done"]_vars

\* A call with a single stage-1 answer reached Done through stages 2 and 3,
\* every stage-2 call having failed.
C12_Witness ==
  /\ pc = "done"
  /\ Cardinality(Survivors) = 1
  /\ \A i \in Models : r2[i].st = "dropped"
  /\ r3.posts = 1

\* Configuration indices of the backends whose stage-2 reply was usable.
Rankers == {i \in Models : Usable(r2[i]) \/ r2[i].st = "used"}

\* Part a is followed at once by part b in the prompt.
HasPair(prompt, a, b) ==
  \E j \in 1..(Len(prompt) - 1) : prompt[j] = a /\ prompt[j + 1] = b

\* C13: a failed stage 2 does not abort the request: whatever number of
\* stage-2 calls fail (some or all), stage 3 runs, and its prompt carries
\* every stage-1 answer and the rankings of exactly the backends whose
\* stage-2 call gave one (possibly none); only a stage 1 without any answer
\* ends the request early.
C13_PartialResultsCarried ==
  /\ (pc \in {"round3", "done"} /\ Survivors # {}) =>
       /\ r3.posts = 1
       /\ Len(stage1_results) = Cardinality(Survivors)
       /\ [k \in 1..Len(stage2_results) |-> stage2_results[k].model]
            = [k \in 1..Cardinality(Rankers) |-> council_models[Ascending(Rankers)[k]]]
  /\ r3.st = "inflight" =>
       /\ \A k \in 1..Len(stage1_results) :
            HasPair(r3.prompt, Part("model", <<stage1_results[k].model>>),
                    Part("text", stage1_results[k].response))
       /\ \A k \in 1..Len(stage2_results) :
            HasPair(r3.prompt, Part("model", <<stage2_results[k].model>>),
                    Part("ranking", stage2_results[k].ranking))
  /\ (pc = "done" /\ r3.posts = 0) => Survivors = {}

\* The chairman call is in flight although one stage-2 call failed and
\* another gave a ranking; and (second case) although all of them failed.
C13_Witness ==
  /\ r3.st = "inflight"
  /\ Cardinality(Survivors) >= 2
  /\ \/ Rankers # {} /\ Rankers # Models /\ Len(stage2_results) = Cardinality(Rankers)
     \/ Rankers = {} /\ stage2_results = <<>>

\* C16: stage 1 issues one call to every configured backend, all with the
\* same prompt; stage 2 issues one call to every configured backend again,
\* those whose stage-1 call failed included, all with the same ranking
\* prompt, and keeps the reply of exactly those that gave usable content.
C16_AllBackendsBothRounds ==
  /\ pc = "round1" =>
       \A i \in Models :
         /\ r1[i].posts = 1
         /\ r1[i].model = council_models[i]
         /\ r1[i].st = "inflight" =>
              r1[i].prompt = Stage1Messages(BuildPrompt(question))
  /\ pc = "round2" =>
       \A i \in Models :
         /\ r2[i].posts = 1
         /\ r2[i].model = council_models[i]
         /\ r2[i].st = "inflight" =>
              r2[i].prompt = Stage2Messages(question, BuildPrompt(question),
                                            stage1_results)
  /\ pc \in {"round3", "done"} /\ Survivors # {} =>
       /\ \A i \in Models : r2[i].posts = 1 /\ r2[i].st \in {"used", "dropped"}
       /\ {stage2_results[k].model : k \in 1..Len(stage2_results)}
            = {council_models[i] : i \in Rankers}

\* Stage 2 has a call in flight to a backend whose stage-1 call was dropped.
C16_Witness ==
  /\ pc = "round2"
  /\ \E i \in Models :
       r1[i].st = "dropped" /\ r2[i].st = "inflight" /\ r2[i].posts = 1

\* ====================================== _parse_ranking_from_text on its own

\* Longest ranking text given to the parser, in tokens.
MaxRankingLen == 4

\* The tokens of a ranking text: a word, whitespace, the sentinel, a list
\* number, two labels.
RankingTokens == {"x", " ", Sentinel, "1.", Label(1), Label(2)}

RankingInputs == UNION {[1..n -> RankingTokens] : n \in 0..MaxRankingLen}

ParseInit ==
  /\ CouncilIdle
  /\ EngineIdle
  /\ fpc = "called"
  /\ args \in RankingInputs
  /\ ret = <<>>

\* _parse_ranking_from_text(ranking_text) returns.
ParseReturn ==
  /\ fpc = "called"
  /\ fpc' = "returned"
  /\ ret' = ParseRankingFromText(args)
  /\ UNCHANGED <<args, cvars, svars>>

ParseNext == ParseReturn

ParseSpec == ParseInit /\ [][ParseNext]_vars

\* The positions of the labels in a text, and the labels at a set of
\* positions, in the order of the text.
LabelPositions(t) == {i \in 1..Len(t) : IsLabel(t[i])}

LabelsAt(t, P) == [k \in 1..Cardinality(P) |-> t[Ascending(P)[k]]]

\* C14 (as stated): the parser returns for every text, and for a text
\* without the sentinel "FINAL RANKING:" it returns the empty ranking.
C14_NoSentinelNoRanking ==
  fpc = "returned" =>
    /\ \A k \in 1..Len(ret) : IsLabel(ret[k])
    /\ SentinelAt(args) = {} => ret = <<>>

\* C14 (amended): the parser returns a list of labels for every text,
\* malformed or not; for a text without the sentinel it returns every label
\* occurrence of the whole text, in order, so that its ranking is empty only
\* if the text names no label at all.
C14_NoSentinelFallsBack ==
  fpc = "returned" =>
    /\ \A k \in 1..Len(ret) : IsLabel(ret[k])
    /\ SentinelAt(args) = {} =>
         /\ ret = LabelsAt(args, LabelPositions(args))
         /\ ret = <<>> <=> LabelPositions(args) = {}

\* The parser returned a ranking of two labels for a text without sentinel.
C14_Witness ==
  /\ fpc = "returned"
  /\ SentinelAt(args) = {}
  /\ Len(ret) = 2

\* The positions after the first sentinel of a text.
AfterSentinel(t) == {i \in 1..Len(t) : i > Min(SentinelAt(t))}

\* The label positions of P that a list number precedes (whitespace apart).
NumberedAt(t, P) ==
  {j \in P : /\ IsLabel(t[j])
             /\ \E i \in P : /\ i < j
                             /\ IsNumber(t[i])
                             /\ \A k \in (i + 1)..(j - 1) : IsSpace(t[k])}

\* C15: for a text that holds the sentinel the parser returns exactly the
\* label occurrences after the sentinel, in order and with duplicates, none
\* from before it: those of the numbered entries when there is one, every
\* label after the sentinel otherwise.
C15_LabelsAfterSentinel ==
  (fpc = "returned" /\ SentinelAt(args) # {}) =>
    LET after == AfterSentinel(args)
        numbered == NumberedAt(args, after)
    IN ret = IF numbered # {} THEN LabelsAt(args, numbered)
             ELSE LabelsAt(args, LabelPositions(args) \cap after)

\* ================================================= _build_prompt on its own

\* Most items of conversation_history, and most knowledge sections.
MaxHistory == 2

MaxSections == 2

SeqsUpTo(S, n) == UNION {[1..k -> S] : k \in 0..n}

\* A text one character longer than the budget, and one just as long.
LongText == [i \in 1..(ResponseBudget + 1) |-> IF i <= ResponseBudget THEN "c" ELSE "d"]

ExactText == [i \in 1..ResponseBudget |-> "c"]

HistoryItems ==
  { [user_text |-> <<>>, response_text |-> <<>>],
    [user_text |-> <<"u">>, response_text |-> <<"r">>],
    [user_text |-> <<"u">>, response_text |-> LongText],
    [user_text |-> <<>>, response_text |-> ExactText],
    [user_text |-> LongText, response_text |-> <<"r">>] }

KnowledgeItems ==
  { [document_title |-> "T", topic |-> Missing, document_id |-> "d1",
     source_file |-> "f.pdf", excerpt |-> <<" ", "e", " ">>, section_id |-> "s1"],
    [document_title |-> Missing, topic |-> "topic", document_id |-> Missing,
     source_file |-> Missing, excerpt |-> <<"e">>, section_id |-> Missing],
    [document_title |-> "", topic |-> "", document_id |-> "",
     source_file |-> Missing, excerpt |-> <<"g">>, section_id |-> "s2"],
    [document_title |-> "T", topic |-> Missing, document_id |-> Missing,
     source_file |-> "f.pdf", excerpt |-> <<" ">>, section_id |-> "s3"] }

PromptInputs ==
  [question : {<<"q">>},
   metrics : {<<>>, RequestMetrics},
   knowledge_sections : SeqsUpTo(KnowledgeItems, MaxSections),
   conversation_history : SeqsUpTo(HistoryItems, MaxHistory)]

PromptInit ==
  /\ CouncilIdle
  /\ EngineIdle
  /\ fpc = "called"
  /\ args \in PromptInputs
  /\ ret = <<>>

\* _build_prompt(question=, metrics=, knowledge_sections=,
\* conversation_history=) returns.
PromptReturn ==
  /\ fpc = "called"
  /\ fpc' = "returned"
  /\ ret' = BuildPromptOf(args.question, args.metrics, args.knowledge_sections,
                          args.conversation_history)
  /\ UNCHANGED <<args, cvars, svars>>

PromptNext == PromptReturn

PromptSpec == PromptInit /\ [][PromptNext]_vars

PartsOfKind(prompt, k) == SelectSeq(prompt, LAMBDA x : x.k = k)

ValuesOf(parts) == [i \in 1..Len(parts) |-> parts[i].v]

\* The section a part belongs to: 1 context data, 2 previous exchanges,
\* 3 knowledge excerpts (or the note that there is none), 4 question,
\* 5 instructions.
SectionRank(part) ==
  CASE part.k = "context" -> 1
    [] part.k \in {"exchange", "user", "bot"} -> 2
    [] part.k = "excerpt" -> 3
    [] part.k = "question" -> 4
    [] part.k = "lit" /\ part.v = <<"Contextual data (JSON):">> -> 1
    [] part.k = "lit" /\ part.v \in {<<"Previous conversation context:">>, <<"---">>} -> 2
    [] part.k = "lit" /\ part.v \in
         {<<"Relevant knowledge base excerpts:">>,
          <<"Note: No specific knowledge base excerpts were found">>,
          <<"You should use your general knowledge">>} -> 3
    [] part.k = "lit" /\ part.v \in {<<"Question:">>, <<"\n">>} -> 4
    [] OTHER -> 5

\* Positions of the history items that have a user text, a response text,
\* either; positions of the knowledge sections with a non-blank excerpt.
Asked(h) == {i \in 1..Len(h) : h[i].user_text # <<>>}

Answered(h) == {i \in 1..Len(h) : h[i].response_text # <<>>}

Excerpted(ks) == {i \in 1..Len(ks) : \E j \in 1..Len(ks[i].excerpt) : ks[i].excerpt[j] # " "}

\* The sections of the prompt come in the fixed order, around the literal
\* question; the previous exchanges in the order of the argument, numbered
\* by their position; the knowledge excerpts in the order of the argument,
\* each with its identifier (its position when it has none).
C17_FixedOrder ==
  LET h == args.conversation_history
      ks == args.knowledge_sections
      excerpts == ValuesOf(PartsOfKind(ret, "excerpt"))
  IN /\ \A i, j \in 1..Len(ret) : i < j => SectionRank(ret[i]) <= SectionRank(ret[j])
     /\ {SectionRank(ret[i]) : i \in 1..Len(ret)} \ {2} = {1, 3, 4, 5}
     /\ ValuesOf(PartsOfKind(ret, "context")) = <<JsonDumps(args.metrics)>>
     /\ ValuesOf(PartsOfKind(ret, "question")) = <<args.question>>
     /\ ValuesOf(PartsOfKind(ret, "exchange"))
          = [k \in 1..Cardinality(Asked(h) \cup Answered(h)) |->
               <<ToString(Ascending(Asked(h) \cup Answered(h))[k])>>]
     /\ Len(excerpts) = Cardinality(Excerpted(ks))
     /\ \A k \in 1..Len(excerpts) :
          LET index == Ascending(Excerpted(ks))[k] IN
          /\ excerpts[k][1] = "[" \o ToString(index) \o "]"
          /\ excerpts[k][4] = "id=" \o (IF ks[index].section_id = Missing
                                         THEN ToString(index)
                                         ELSE ks[index].section_id)
          /\ Strip(ks[index].excerpt) = SubSeq(excerpts[k], 5, Len(excerpts[k]))

\* A text cut to the budget: whole when within it, else its first
\* ResponseBudget characters and an ellipsis.
CutToBudget(shown, text) ==
  IF Len(text) <= ResponseBudget THEN shown = text
  ELSE /\ Len(shown) = ResponseBudget + 1
       /\ SubSeq(shown, 1, ResponseBudget) = SubSeq(text, 1, ResponseBudget)
       /\ shown[ResponseBudget + 1] = "..."

\* C17 (as stated): the prompt has its sections in the fixed order, and each
\* previous exchange, the user's text and the response alike, is cut to the
\* fixed budget.
C17_EveryExcerptTruncated ==
  fpc = "returned" /\ args \in PromptInputs =>
    LET h == args.conversation_history
        users == ValuesOf(PartsOfKind(ret, "user"))
        bots == ValuesOf(PartsOfKind(ret, "bot"))
    IN /\ C17_FixedOrder
       /\ Len(users) = Cardinality(Asked(h))
       /\ Len(bots) = Cardinality(Answered(h))
       /\ \A k \in 1..Len(users) :
            CutToBudget(users[k], h[Ascending(Asked(h))[k]].user_text)
       /\ \A k \in 1..Len(bots) :
            CutToBudget(bots[k], h[Ascending(Answered(h))[k]].response_text)

\* C17 (amended): the prompt is a function of the arguments alone, with its
\* sections in the fixed order: context data, previous exchanges in the
\* order given, knowledge excerpts each with its identifier (or the note that
\* there is none), the literal question, the instruction block; of a
\* previous exchange only the response is cut to the fixed budget, the
\* user's text is passed on whole.
C17_OnlyResponsesTruncated ==
  fpc = "returned" /\ args \in PromptInputs =>
    LET h == args.conversation_history
        users == ValuesOf(PartsOfKind(ret, "user"))
        bots == ValuesOf(PartsOfKind(ret, "bot"))
    IN /\ C17_FixedOrder
       /\ users = [k \in 1..Cardinality(Asked(h)) |->
                     h[Ascending(Asked(h))[k]].user_text]
       /\ Len(bots) = Cardinality(Answered(h))
       /\ \A k \in 1..Len(bots) :
            CutToBudget(bots[k], h[Ascending(Answered(h))[k]].response_text)

\* The prompt of a call with two previous exchanges, the first with a
\* response over the budget, and two knowledge sections of which the second
\* has a blank excerpt.
C17_Witness ==
  /\ fpc = "returned"
  /\ args \in PromptInputs
  /\ Len(args.conversation_history) = 2
  /\ Len(args.conversation_history[1].response_text) > ResponseBudget
  /\ Len(args.knowledge_sections) = 2
  /\ Excerpted(args.knowledge_sections) = {1}
  /\ Len(PartsOfKind(ret, "bot")) = 2

\* ============================================================ IntentEngine
\* (src/app/services/intent_engine.py)
\*
\* A message is a sequence of tokens: the token " " is whitespace, any other
\* token is a word, and consecutive words are one whitespace apart.  Words
\* are written in Latin letters; what the patterns of the engine see of a
\* word (its letters, a date, digits) is given word by word below.
\*
\*   kama כמה   mekholot מכולות   hayom היום   nifreku נפרקו   rekhavim רכבים
\*   bein בין   ad עד   leumat לעומת   b ב   bkhodesh בחודש
\*   yanuar ינואר   byanuar בינואר   februar פברואר   bfebruar בפברואר
\*   bfebaur בפבאור   bshavua בשבוע   nituakh ניתוח   matsav מצב
\*   nehalim נהלים   tor תור   oniya אוניה   ani אני   menahel מנהל
\*   shalom שלום   febuar פבואר   merts מרץ   mars מרס   maars מארס
\*   apreel אפריל   mai מאי   yuni יוני   yuli יולי   ogust אוגוסט
\*   septembr ספטמבר   oktobr אוקטובר   novembr נובמבר   detsembr דצמבר

\* ------------------------------------------------------------------ dates

\* The years of two digits, as a message writes them, and the first of
\* January of each; the n-th of either stands for the year n - 1.
YearTokens ==
  << "00", "01", "02", "03", "04", "05", "06", "07", "08", "09",
     "10", "11", "12", "13", "14", "15", "16", "17", "18", "19",
     "20", "21", "22", "23", "24", "25", "26", "27", "28", "29",
     "30", "31", "32", "33", "34", "35", "36", "37", "38", "39",
     "40", "41", "42", "43", "44", "45", "46", "47", "48", "49",
     "50", "51", "52", "53", "54", "55", "56", "57", "58", "59",
     "60", "61", "62", "63", "64", "65", "66", "67", "68", "69",
     "70", "71", "72", "73", "74", "75", "76", "77", "78", "79",
     "80", "81", "82", "83", "84", "85", "86", "87", "88", "89",
     "90", "91", "92", "93", "94", "95", "96", "97", "98", "99" >>

NewYearWords ==
  << "1.1.00", "1.1.01", "1.1.02", "1.1.03", "1.1.04", "1.1.05", "1.1.06", "1.1.07", "1.1.08", "1.1.09",
     "1.1.10", "1.1.11", "1.1.12", "1.1.13", "1.1.14", "1.1.15", "1.1.16", "1.1.17", "1.1.18", "1.1.19",
     "1.1.20", "1.1.21", "1.1.22", "1.1.23", "1.1.24", "1.1.25", "1.1.26", "1.1.27", "1.1.28", "1.1.29",
     "1.1.30", "1.1.31", "1.1.32", "1.1.33", "1.1.34", "1.1.35", "1.1.36", "1.1.37", "1.1.38", "1.1.39",
     "1.1.40", "1.1.41", "1.1.42", "1.1.43", "1.1.44", "1.1.45", "1.1.46", "1.1.47", "1.1.48", "1.1.49",
     "1.1.50", "1.1.51", "1.1.52", "1.1.53", "1.1.54", "1.1.55", "1.1.56", "1.1.57", "1.1.58", "1.1.59",
     "1.1.60", "1.1.61", "1.1.62", "1.1.63", "1.1.64", "1.1.65", "1.1.66", "1.1.67", "1.1.68", "1.1.69",
     "1.1.70", "1.1.71", "1.1.72", "1.1.73", "1.1.74", "1.1.75", "1.1.76", "1.1.77", "1.1.78", "1.1.79",
     "1.1.80", "1.1.81", "1.1.82", "1.1.83", "1.1.84", "1.1.85", "1.1.86", "1.1.87", "1.1.88", "1.1.89",
     "1.1.90", "1.1.91", "1.1.92", "1.1.93", "1.1.94", "1.1.95", "1.1.96", "1.1.97", "1.1.98", "1.1.99" >>

YearTokenSet == {YearTokens[n] : n \in 1..Len(YearTokens)}

NewYearWordSet == {NewYearWords[n] : n \in 1..Len(NewYearWords)}

IndexIn(seq, s) == CHOOSE n \in 1..Len(seq) : seq[n] = s

\* the words of two to four digits
YearWordSet == {"25", "85", "2024", "2025"} \cup YearTokenSet

\* the date words of day 1
FirstDayWordSet == {"1.2.24", "1.1.85", "1.13.2024"} \cup NewYearWordSet

\* None, where a date is expected
NoDate == [year |-> 0, month |-> 0, day |-> 0]

\* DATE_PATTERN on a word: the digits of day, month and year
DateFields(w) ==
  CASE w = "1.2.24"  -> [day |-> 1, month |-> 2, year |-> 24]
    [] w = "15.3.24" -> [day |-> 15, month |-> 3, year |-> 24]
    [] w = "31.2.24" -> [day |-> 31, month |-> 2, year |-> 24]
    [] w = "29.2.24" -> [day |-> 29, month |-> 2, year |-> 24]
    [] w = "1.1.85"  -> [day |-> 1, month |-> 1, year |-> 85]
    [] w = "1.13.2024" -> [day |-> 1, month |-> 13, year |-> 2024]
    [] w \in NewYearWordSet ->
         [day |-> 1, month |-> 1, year |-> IndexIn(NewYearWords, w) - 1]
    [] OTHER -> NoDate

\* DATE_PATTERN_INLINE matches the word
IsDateWord(w) == DateFields(w) # NoDate

IsLeap(year) == (year % 4 = 0 /\ year % 100 # 0) \/ year % 400 = 0

DaysIn(month, year) ==
  IF month = 2 THEN (IF IsLeap(year) THEN 29 ELSE 28)
  ELSE IF month \in {4, 6, 9, 11} THEN 30 ELSE 31

\* datetime.date(year, month, day) raises ValueError
DateValueError(year, month, day) ==
  ~(/\ year \in 1..9999
    /\ month \in 1..12
    /\ day \in 1..DaysIn(month, year))

\* year += 2000 if year < 80 else 1900, for year < 100
PivotYear(year) ==
  IF year < 100 THEN (IF year < 80 THEN year + 2000 ELSE year + 1900) ELSE year

\* An exception leaving the function, where a value is expected.
Raises == [raises |-> TRUE]

\* (variant: the ValueError of datetime.date is not caught)
ParseDateUncaught(w) ==
  IF ~IsDateWord(w) THEN NoDate
  ELSE LET f == DateFields(w)
           year == PivotYear(f.year)
       IN IF DateValueError(year, f.month, f.day) THEN Raises
          ELSE [year |-> year, month |-> f.month, day |-> f.day]

\* _parse_date: None (NoDate) without a date, or for a date that the
\* calendar does not have
ParseDate(w) ==
  IF ~IsDateWord(w) THEN NoDate
  ELSE LET f == DateFields(w)
           year == PivotYear(f.year)
       IN IF DateValueError(year, f.month, f.day) THEN NoDate
          ELSE [year |-> year, month |-> f.month, day |-> f.day]

\* start_date > end_date
DateAfter(a, b) ==
  \/ a.year > b.year
  \/ a.year = b.year /\ a.month > b.month
  \/ a.year = b.year /\ a.month = b.month /\ a.day > b.day

\* None, where parameters are expected
NoParams == [none |-> TRUE]

\* (variant: one date that the calendar has is taken for both ends)
ParseRangeOfOneDate(from, to) ==
  LET start_date == ParseDate(from)
      end_date == ParseDate(to)
  IN IF start_date = NoDate /\ end_date = NoDate THEN NoParams
     ELSE IF start_date = NoDate THEN [start_date |-> end_date, end_date |-> end_date]
     ELSE IF end_date = NoDate THEN [start_date |-> start_date, end_date |-> start_date]
     ELSE IF DateAfter(start_date, end_date)
       THEN [start_date |-> end_date, end_date |-> start_date]
       ELSE [start_date |-> start_date, end_date |-> end_date]

\* (variant: the two dates are kept in the order of the text)
ParseRangeAsWritten(from, to) ==
  LET start_date == ParseDate(from)
      end_date == ParseDate(to)
  IN IF start_date = NoDate \/ end_date = NoDate THEN NoParams
     ELSE [start_date |-> start_date, end_date |-> end_date]

\* _parse_range on the groups "from" and "to"
ParseRange(from, to) ==
  LET start_date == ParseDate(from)
      end_date == ParseDate(to)
  IN IF start_date = Raises \/ end_date = Raises THEN Raises
     ELSE IF start_date = NoDate \/ end_date = NoDate THEN NoParams
     ELSE IF DateAfter(start_date, end_date)
       THEN [start_date |-> end_date, end_date |-> start_date]
       ELSE [start_date |-> start_date, end_date |-> end_date]

\* ----------------------------------------------------------------- months

\* (variant: month_names_he holds the calendar's spelling only)
MonthNamesHeCalendarOnly(name) ==
  CASE name = "yanuar" -> 1
    [] name = "februar" -> 2
    [] name = "merts" -> 3
    [] name = "apreel" -> 4
    [] name = "mai" -> 5
    [] name = "yuni" -> 6
    [] name = "yuli" -> 7
    [] name = "ogust" -> 8
    [] name = "septembr" -> 9
    [] name = "oktobr" -> 10
    [] name = "novembr" -> 11
    [] name = "detsembr" -> 12
    [] OTHER -> 0

\* month_names_he; 0 for a name it does not hold
MonthNamesHe(name) ==
  CASE name = "yanuar" -> 1
    [] name \in {"februar", "febaur", "febuar"} -> 2
    [] name \in {"merts", "mars", "maars"} -> 3
    [] name = "apreel" -> 4
    [] name = "mai" -> 5
    [] name = "yuni" -> 6
    [] name = "yuli" -> 7
    [] name = "ogust" -> 8
    [] name = "septembr" -> 9
    [] name = "oktobr" -> 10
    [] name = "novembr" -> 11
    [] name = "detsembr" -> 12
    [] OTHER -> 0

\* month_names_en; 0 for a name it does not hold
MonthNamesEn(name) ==
  CASE name = "january" -> 1
    [] name = "february" -> 2
    [] name = "march" -> 3
    [] name = "april" -> 4
    [] name = "may" -> 5
    [] name = "june" -> 6
    [] name = "july" -> 7
    [] name = "august" -> 8
    [] name = "september" -> 9
    [] name = "october" -> 10
    [] name = "november" -> 11
    [] name = "december" -> 12
    [] OTHER -> 0

\* The English month names as month_names_en holds them, and capitalised.
EnglishMonths ==
  << "january", "february", "march", "april", "may", "june", "july", "august",
     "september", "october", "november", "december" >>

CapitalisedMonths ==
  << "January", "February", "March", "April", "May", "June", "July", "August",
     "September", "October", "November", "December" >>

CapitalisedMonthSet == {CapitalisedMonths[n] : n \in 1..12}

\* str.lower()
Lower(s) ==
  CASE s \in CapitalisedMonthSet ->
         EnglishMonths[IndexIn(CapitalisedMonths, s)]
    [] s = "MARCH" -> "march"
    [] s = "MSCU1234567" -> "mscu1234567"
    [] s \in {"Bearer", "BEARER"} -> "bearer"
    [] s = "textMessage" -> "textmessage"
    [] s = "extendedTextMessage" -> "extendedtextmessage"
    [] s = "imageMessage" -> "imagemessage"
    [] OTHER -> s

\* str.upper()
Upper(s) ==
  CASE s = "mscu1234567" -> "MSCU1234567"
    [] OTHER -> s

\* _clean_token: the token without the punctuation at its ends
CleanToken(token) ==
  CASE token = "februar?" -> "februar"
    [] token = "ruar?" -> "ruar"
    [] token = "25?" -> "25"
    [] OTHER -> token

\* int(year_text)
Int(year_text) ==
  CASE year_text = "25" -> 25
    [] year_text = "85" -> 85
    [] year_text = "2024" -> 2024
    [] year_text = "2025" -> 2025
    [] year_text = "15" -> 15
    [] year_text = "29" -> 29
    [] year_text = "31" -> 31
    [] year_text = "1234" -> 1234
    [] year_text \in YearTokenSet -> IndexIn(YearTokens, year_text) - 1

\* (variant: the pivot of _parse_month is 50)
PivotYearOfMonthAt50(year) ==
  IF year < 100 THEN (IF year < 50 THEN year + 2000 ELSE year + 1900) ELSE year

\* _parse_month's own year += 2000 if year < 80 else 1900, for year < 100
PivotYearOfMonth(year) ==
  IF year < 100 THEN (IF year < 80 THEN year + 2000 ELSE year + 1900) ELSE year

\* _parse_month on the groups month_name and year ("" for a group that is
\* absent or did not take part), on a day `today`
ParseMonth(month_name, year_text, today) ==
  LET name == CleanToken(month_name)
      month_num == IF MonthNamesHe(name) # 0 THEN MonthNamesHe(name)
                   ELSE MonthNamesEn(Lower(name))
  IN IF name = "" \/ month_num = 0 THEN NoParams
     ELSE [month |-> month_num,
           year |-> IF CleanToken(year_text) # ""
                      THEN PivotYearOfMonth(Int(CleanToken(year_text)))
                      ELSE today.year]

\* (variant: the second month of a comparison takes the current year when
\* it has none of its own)
ParseComparisonCurrentYear(groups, today) ==
  LET month1_params ==
        ParseMonth(CleanToken(groups.month1_name), CleanToken(groups.year1), today)
      month2_params ==
        ParseMonth(CleanToken(groups.month2_name), CleanToken(groups.year2), today)
  IN IF month1_params = NoParams \/ month2_params = NoParams THEN NoParams
     ELSE [month1 |-> month1_params.month, year1 |-> month1_params.year,
           month2 |-> month2_params.month, year2 |-> month2_params.year]

\* _parse_comparison: the second month takes the first one's year when it
\* has none of its own (str(year1) read back by _parse_month)
ParseComparison(groups, today) ==
  LET month1_params ==
        ParseMonth(CleanToken(groups.month1_name), CleanToken(groups.year1), today)
  IN IF month1_params = NoParams THEN NoParams
     ELSE LET month2_params ==
                IF CleanToken(groups.year2) # ""
                  THEN ParseMonth(CleanToken(groups.month2_name),
                                  CleanToken(groups.year2), today)
                  ELSE LET m == ParseMonth(CleanToken(groups.month2_name), "", today)
                       IN IF m = NoParams THEN NoParams
                          ELSE [m EXCEPT !.year = PivotYearOfMonth(month1_params.year)]
          IN IF month2_params = NoParams THEN NoParams
             ELSE [month1 |-> month1_params.month, year1 |-> month1_params.year,
                   month2 |-> month2_params.month, year2 |-> month2_params.year]

\* ------------------------------------------ what the patterns see of a word

\* The rest of the word after each ב in it, in order ("" when ב ends it).
BetRests(w) ==
  CASE w = "b" -> <<"">>
    [] w = "bkhodesh" -> <<"khodesh">>
    [] w = "byanuar" -> <<"yanuar">>
    [] w = "bfebruar" -> <<"februar", "ruar">>
    [] w = "bfebruar?" -> <<"februar?", "ruar?">>
    [] w = "februar" -> <<"ruar">>
    [] w = "bfebaur" -> <<"febaur", "aur">>
    [] w = "bshavua" -> <<"shavua", "ua">>
    [] w = "bein" -> <<"in">>
    [] w = "rekhavim" -> <<"im">>
    [] OTHER -> <<>>

\* The word begins with ב.
StartsWithBet(w) ==
  w \in {"b", "bkhodesh", "byanuar", "bfebruar", "bfebruar?", "bfebaur",
         "bshavua", "bein"}

\* The text begins with חודש, and what follows it.
StartsWithKhodesh(s) == s = "khodesh"

AfterKhodesh(s) == ""

\* \d{2,4} at the start of the word ("" when it does not start with two
\* digits)
LeadingYear(w) ==
  CASE w \in YearWordSet -> w
    [] w = "25?" -> "25"
    [] w = "15.3.24" -> "15"
    [] w = "29.2.24" -> "29"
    [] w = "31.2.24" -> "31"
    [] w = "123456789" -> "1234"
    [] OTHER -> ""

\* \d{2,4} followed by whitespace: the word is two to four digits
WholeYear(w) == IF w \in YearWordSet THEN w ELSE ""

\* \w+ at the start of a text
WordChars(s) ==
  CASE s = "februar?" -> "februar"
    [] s = "ruar?" -> "ruar"
    [] s = "25?" -> "25"
    [] s \in FirstDayWordSet -> "1"
    [] s = "15.3.24" -> "15"
    [] s = "29.2.24" -> "29"
    [] s = "31.2.24" -> "31"
    [] s = "mismhola=12345" -> "mismhola"
    [] OTHER -> s

\* the word ends with one of נפרקו, עשו, עשה, טופלו, היו
EndsWithVerb(w) == w \in {"nifreku", "asu", "asa", "tuplu", "hayu"}

\* the word ends with בין or מתאריך;  the word ends with עד or ל
EndsWithFrom(w) == w \in {"bein", "mitaarikh"}

EndsWithTo(w) == w \in {"ad", "l"}

\* the word is one of לעומת, מול, vs, versus
IsVersus(w) == Lower(w) \in {"leumat", "mul", "vs", "versus"}

\* CONTAINER_ID_PATTERN in the word: four letters and seven digits, or nine
\* to twelve digits, between word boundaries ("" when it has none)
ContainerIdIn(w) ==
  CASE w \in {"MSCU1234567", "mscu1234567", "123456789"} -> w
    [] OTHER -> ""

\* the 12 characters after "mismhola=" in the word, up to whitespace or &
\* ("" when the word does not hold "mismhola=")
MismholaIn(w) ==
  CASE w = "mismhola=12345" -> "12345"
    [] OTHER -> ""

NextWord(w, k) == IF k \in 1..Len(w) THEN w[k] ELSE ""

Max(S) == CHOOSE x \in S : \A y \in S : x >= y

\* ------------------------------------------------------------ the patterns

\* A pattern that does not match.
NoGroups == [nomatch |-> TRUE]

RECURSIVE FirstMatch(_)
FirstMatch(candidates) ==
  IF candidates = <<>> THEN NoGroups
  ELSE IF Head(candidates) # NoGroups THEN Head(candidates)
  ELSE FirstMatch(Tail(candidates))

IsMekholot(x) == x = "mekholot"

\* \b(?:רכבים|vehicles)\b
IsVehicles(x) == Lower(x) \in {"rekhavim", "vehicles"}

\* \bכמה\b.*\bNOUN\b followed by a tail: .* is greedy, so the tail starts
\* after the last NOUN after which it matches
AfterKama(w, Noun(_), Tail_(_, _)) ==
  LET J == {j \in 1..Len(w) :
              /\ Noun(w[j])
              /\ \E i \in 1..(j - 1) : w[i] = "kama"
              /\ Tail_(w, j) # NoGroups}
  IN IF J = {} THEN NoGroups ELSE Tail_(w, Max(J))

\* The occurrences of ב after word j, in order: the word and the rest of it.
BetOccurrences(w, j) ==
  Concat([k \in 1..Len(w) |->
            IF k > j
              THEN [n \in 1..Len(BetRests(w[k])) |->
                      [k |-> k, rest |-> BetRests(w[k])[n],
                       first |-> n = 1 /\ StartsWithBet(w[k])]]
              ELSE <<>>])

\* \s*(?P<month_name>\S+) where `rest` is left of word k: the rest of the
\* word, or the next word when nothing is left
NameAt(w, k, rest) ==
  IF rest # "" THEN [name |-> rest, after |-> k + 1]
  ELSE [name |-> NextWord(w, k + 1), after |-> k + 2]

\* \s*(?P<month_name>\S+)\s+(?P<year>\d{2,4})
MonthYearAt(w, k, rest) ==
  LET c == NameAt(w, k, rest)
      year == LeadingYear(NextWord(w, c.after))
  IN IF c.name # "" /\ year # "" THEN [month_name |-> c.name, year |-> year]
     ELSE NoGroups

\* \s*(?P<month_name>\S+)
MonthAt(w, k, rest) ==
  LET c == NameAt(w, k, rest)
  IN IF c.name # "" THEN [month_name |-> c.name, year |-> ""] ELSE NoGroups

\* (?P<month_name>\S+)\s+(?P<year>\d{2,4}) and (?P<month_name>\S+) right
\* after ב, without whitespace
MonthYearAttached(w, k, rest) ==
  IF rest # "" THEN MonthYearAt(w, k, rest) ELSE NoGroups

MonthAttached(w, k, rest) ==
  IF rest # "" THEN MonthAt(w, k, rest) ELSE NoGroups

\* \s*(?P<month_name>\w+)\s+(?P<year>\d{2,4}) and \s*(?P<month_name>\w+)
WordYearAt(w, k, rest) ==
  LET c == NameAt(w, k, rest)
      year == LeadingYear(NextWord(w, c.after))
  IN IF c.name # "" /\ WordChars(c.name) = c.name /\ year # ""
       THEN [month_name |-> c.name, year |-> year]
       ELSE NoGroups

WordAt(w, k, rest) ==
  LET c == NameAt(w, k, rest)
  IN IF WordChars(c.name) # "" THEN [month_name |-> WordChars(c.name), year |-> ""]
     ELSE NoGroups

\* (?:ב|בחודש) at an occurrence of ב, followed by M: ב is tried first
BetOrKhodesh(w, o, M(_, _, _)) ==
  IF M(w, o.k, o.rest) # NoGroups THEN M(w, o.k, o.rest)
  ELSE IF StartsWithKhodesh(o.rest) THEN M(w, o.k, AfterKhodesh(o.rest))
  ELSE NoGroups

\* .*?(?:verb)\s+ followed by M at the ב that begins the next word
AfterVerb(w, j, M(_, _, _)) ==
  FirstMatch([k \in 1..Len(w) |->
                IF k - 1 > j /\ EndsWithVerb(w[k - 1]) /\ StartsWithBet(w[k])
                  THEN M(w, k, BetRests(w[k])[1])
                  ELSE NoGroups])

\* the same, with (?:ב|בחודש|ב-|בחודש-) for ב (no word here has a hyphen)
AfterVerbBetOrKhodesh(w, j, M(_, _, _)) ==
  FirstMatch([k \in 1..Len(w) |->
                IF k - 1 > j /\ EndsWithVerb(w[k - 1]) /\ StartsWithBet(w[k])
                  THEN BetOrKhodesh(w, [k |-> k, rest |-> BetRests(w[k])[1]], M)
                  ELSE NoGroups])

\* .*?(?:ב|בחודש) followed by M, and .*?ב followed by M: the first
\* occurrence of ב after which the rest matches
AfterBetOrKhodesh(w, j, M(_, _, _)) ==
  LET occ == BetOccurrences(w, j)
  IN FirstMatch([n \in 1..Len(occ) |-> BetOrKhodesh(w, occ[n], M)])

AfterBet(w, j, M(_, _, _)) ==
  LET occ == BetOccurrences(w, j)
  IN FirstMatch([n \in 1..Len(occ) |-> M(w, occ[n].k, occ[n].rest)])

\* MONTHLY_CONTAINER_PATTERNS: the groups of each pattern's search
MonthlyTail01(w, j) == AfterVerb(w, j, MonthYearAttached)
MonthlyTail02(w, j) == AfterVerb(w, j, MonthAttached)
MonthlyTail03(w, j) == AfterVerbBetOrKhodesh(w, j, MonthYearAt)
MonthlyTail04(w, j) == AfterVerbBetOrKhodesh(w, j, MonthAt)
MonthlyTail05(w, j) == AfterBetOrKhodesh(w, j, MonthYearAt)
MonthlyTail06(w, j) == AfterBetOrKhodesh(w, j, MonthAt)
MonthlyTail07(w, j) == AfterBet(w, j, MonthYearAttached)
MonthlyTail08(w, j) == AfterBet(w, j, MonthAttached)
MonthlyTail09(w, j) == AfterBetOrKhodesh(w, j, WordYearAt)
MonthlyTail10(w, j) == AfterBetOrKhodesh(w, j, WordAt)

MonthlyContainerPatterns(w) ==
  << AfterKama(w, IsMekholot, MonthlyTail01), AfterKama(w, IsMekholot, MonthlyTail02),
     AfterKama(w, IsMekholot, MonthlyTail03), AfterKama(w, IsMekholot, MonthlyTail04),
     AfterKama(w, IsMekholot, MonthlyTail05), AfterKama(w, IsMekholot, MonthlyTail06),
     AfterKama(w, IsMekholot, MonthlyTail07), AfterKama(w, IsMekholot, MonthlyTail08),
     AfterKama(w, IsMekholot, MonthlyTail09), AfterKama(w, IsMekholot, MonthlyTail10) >>

\* (?:ב|בחודש)?\s*(?P<month2_name>\S+) followed by the year: the optional
\* prefix takes ב, else בחודש, else nothing
SecondMonth(w, m, M(_, _, _)) ==
  IF m > Len(w) THEN NoGroups
  ELSE FirstMatch(
         << IF StartsWithBet(w[m]) THEN M(w, m, BetRests(w[m])[1]) ELSE NoGroups,
            IF StartsWithBet(w[m]) /\ StartsWithKhodesh(BetRests(w[m])[1])
              THEN M(w, m, AfterKhodesh(BetRests(w[m])[1])) ELSE NoGroups,
            M(w, m - 1, "") >>)

\* \s*(?P<month2_name>\S+)(?:\s+(?P<year2>\d{2,4}))?
MonthOptionalYearAt(w, k, rest) ==
  LET c == NameAt(w, k, rest)
  IN IF c.name # ""
       THEN [month_name |-> c.name, year |-> LeadingYear(NextWord(w, c.after))]
       ELSE NoGroups

\* \s*(?P<month1_name>\S+)\s+(?P<year1>\d{2,4})\s+(?:לעומת|מול|vs|versus)\s+
\* and the second month
ComparisonAt(w, k, rest, M(_, _, _)) ==
  LET c == NameAt(w, k, rest)
      year1 == WholeYear(NextWord(w, c.after))
      second == SecondMonth(w, c.after + 2, M)
  IN IF c.name # "" /\ year1 # "" /\ IsVersus(NextWord(w, c.after + 1))
          /\ second # NoGroups
       THEN [month1_name |-> c.name, year1 |-> year1,
             month2_name |-> second.month_name, year2 |-> second.year]
       ELSE NoGroups

ComparisonYearAt(w, k, rest) == ComparisonAt(w, k, rest, MonthYearAt)

ComparisonOptionalYearAt(w, k, rest) == ComparisonAt(w, k, rest, MonthOptionalYearAt)

ComparisonTail1(w, j) == AfterBetOrKhodesh(w, j, ComparisonYearAt)

ComparisonTail2(w, j) == AfterBetOrKhodesh(w, j, ComparisonOptionalYearAt)

\* COMPARISON_MONTHLY_PATTERNS: the groups of each pattern's search
ComparisonMonthlyPatterns(w) ==
  << AfterKama(w, IsMekholot, ComparisonTail1),
     AfterKama(w, IsMekholot, ComparisonTail2) >>

\* .*?(?:בין|מתאריך)\s+(?P<from>date).*?(?:עד|ל)\s*(?P<to>date)
RangeTail(w, j) ==
  FirstMatch([k \in 1..Len(w) |->
    IF k > j /\ EndsWithFrom(w[k]) /\ IsDateWord(NextWord(w, k + 1))
      THEN FirstMatch([l \in 1..Len(w) |->
             IF l > k + 1 /\ EndsWithTo(w[l]) /\ IsDateWord(NextWord(w, l + 1))
               THEN [from |-> w[k + 1], to |-> w[l + 1]]
               ELSE NoGroups])
      ELSE NoGroups])

\* RANGE_CONTAINER_PATTERNS and RANGE_VEHICLES_PATTERNS (one pattern each)
RangeContainerPattern(w) == AfterKama(w, IsMekholot, RangeTail)

RangeVehiclesPattern(w) == AfterKama(w, IsVehicles, RangeTail)

HasWord(w, S) == \E i \in 1..Len(w) : Lower(w[i]) \in S

\* a word of S, and later a word of T
HasWordThen(w, S, T) ==
  \E i, j \in 1..Len(w) : i < j /\ Lower(w[i]) \in S /\ Lower(w[j]) \in T

\* the words of S one after the other
HasPhrase(w, phrase) ==
  \E i \in 0..(Len(w) - Len(phrase)) :
    \A n \in 1..Len(phrase) : Lower(w[i + n]) = phrase[n]

\* the words that begin with מכול;  with תור;  with one of נמל, אוניה,
\* אוניות, מכולה, מכולות;  with one of תור, תורים, עקוף
MekholWords == {"mekhola", "mekholot"}

TorWords == {"tor", "torim"}

PortWords == {"namal", "oniya", "oniyot", "mekhola", "mekholot"}

QueueOrBypassWords == {"tor", "torim", "akof"}

BypassWords == {"akof", "okef", "okfot", "okfim"}

\* PROCEDURE_QUESTION_PATTERNS: some pattern matches
ProcedureQuestionPatterns(w) ==
  \/ HasWord(w, {"nahel", "nehalim", "tahalikh", "tahalikhim", "mediniyut",
                 "protsedura", "protsedurot"})
  \/ HasWord(w, {"procedure", "procedures", "policy", "policies", "process",
                 "processes"})
  \/ HasWordThen(w, {"tor", "torim", "adifut", "adifuyot"}, PortWords)
  \/ HasWordThen(w, BypassWords, TorWords)
  \/ HasWord(w, {"queue", "queuing", "priority", "priorities"})
  \/ HasWord(w, {"garinim", "garin"})
  \/ HasWord(w, BypassWords)
  \/ HasWordThen(w, {"oniya", "oniyot", "oniyat"}, QueueOrBypassWords)

\* MANAGER_QUESTION_PATTERNS: some pattern matches
ManagerQuestionPatterns(w) ==
  \/ HasPhrase(w, <<"ani", "menahel">>)
  \/ HasPhrase(w, <<"i", "am", "a", "manager">>)
  \/ HasPhrase(w, <<"i'm", "a", "manager">>)

\* DAILY_CONTAINER_PATTERNS: some pattern matches
DailyContainerPatterns(w) ==
  \/ \E i, j, k \in 1..Len(w) :
       i < j /\ j < k /\ w[i] = "kama" /\ w[j] = "mekholot" /\ w[k] = "hayom"
  \/ HasWordThen(w, {"containers"}, {"today"})

\* LLM_ANALYSIS_PATTERNS: the pattern matches
LlmAnalysisPatterns(w) == HasWord(w, {"nituakh", "nateakh", "gemini", "ai"})

\* CONTAINER_STATUS_PATTERNS: some pattern matches
ContainerStatusPatterns(w) ==
  \/ HasWordThen(w, {"statos", "matsav"}, MekholWords)
  \/ HasPhrase(w, <<"container", "status">>)
  \/ \E i \in 1..Len(w) : WordChars(Lower(w[i])) = "mismhola"

\* CONTAINER_GENERIC_PATTERNS: some pattern matches
ContainerGenericPatterns(w) ==
  \/ HasWord(w, MekholWords)
  \/ HasWord(w, {"container", "containers"})

\* The first word for which F gives a text, and that text ("" without one).
FirstIn(w, F(_)) ==
  LET K == {k \in 1..Len(w) : F(w[k]) # ""}
  IN IF K = {} THEN "" ELSE F(w[Min(K)])

\* _extract_container_id ("" for None)
ExtractContainerId(w) ==
  IF FirstIn(w, ContainerIdIn) # "" THEN Upper(FirstIn(w, ContainerIdIn))
  ELSE Upper(FirstIn(w, MismholaIn))

\* _extract_any_range: the first two dates of the text that the calendar
\* has, in order of time
ExtractAnyRange(w) ==
  LET matches == [k \in 1..Len(w) |-> ParseDate(w[k])]
      valid == SelectSeq(matches, LAMBDA d : d # NoDate)
  IN IF \E k \in 1..Len(w) : matches[k] = Raises THEN Raises
     ELSE IF Len(valid) < 2 THEN NoParams
     ELSE IF DateAfter(valid[1], valid[2])
       THEN [start_date |-> valid[2], end_date |-> valid[1]]
       ELSE [start_date |-> valid[1], end_date |-> valid[2]]

\* ------------------------------------------------------------------ match

\* IntentResult(name, parameters), and None
IntentResult(name, parameters) == [name |-> name, parameters |-> parameters]

None == [name |-> "None", parameters |-> NoParams]

\* The first of a rule's patterns whose groups the parser accepts: its
\* parameters (NoParams when there is none).
FirstParsed(groups, today, Parse(_, _)) ==
  LET K == {k \in 1..Len(groups) :
              groups[k] # NoGroups /\ Parse(groups[k], today) # NoParams}
  IN IF K = {} THEN NoParams ELSE Parse(groups[Min(K)], today)

ParseMonthGroups(groups, today) == ParseMonth(groups.month_name, groups.year, today)

\* One rule of match: the IntentResult it returns, None when match goes on
\* to the next rule, Raises when an exception leaves it.
RangeRule(name, groups) ==
  IF groups = NoGroups THEN None
  ELSE LET dates == ParseRange(groups.from, groups.to)
       IN IF dates = Raises THEN Raises
          ELSE IF dates = NoParams THEN None
          ELSE IntentResult(name, dates)

Rule(rule, stripped, w, today) ==
  CASE rule = "procedure" ->
         IF ProcedureQuestionPatterns(w)
           THEN IntentResult("procedure_question", [question |-> stripped]) ELSE None
    [] rule = "manager" ->
         IF ManagerQuestionPatterns(w)
           THEN IntentResult("manager_question", [question |-> stripped]) ELSE None
    [] rule = "daily" ->
         IF DailyContainerPatterns(w)
           THEN IntentResult("daily_containers_count", [target_date |-> today])
           ELSE None
    [] rule = "range_containers" ->
         RangeRule("containers_count_between", RangeContainerPattern(w))
    [] rule = "range_vehicles" ->
         RangeRule("vehicles_count_between", RangeVehiclesPattern(w))
    [] rule = "comparison" ->
         LET params == FirstParsed(ComparisonMonthlyPatterns(w), today, ParseComparison)
         IN IF params = NoParams THEN None
            ELSE IntentResult("containers_count_comparison", params)
    [] rule = "monthly" ->
         LET params == FirstParsed(MonthlyContainerPatterns(w), today, ParseMonthGroups)
         IN IF params = NoParams THEN None
            ELSE IntentResult("containers_count_monthly", params)
    [] rule = "analysis" ->
         IF LlmAnalysisPatterns(w)
           THEN LET dates == ExtractAnyRange(w)
                IN IF dates = Raises THEN Raises
                   ELSE IF dates = NoParams
                     THEN IntentResult("llm_analysis", [question |-> stripped])
                     ELSE IntentResult("llm_analysis",
                                       [question |-> stripped,
                                        start_date |-> dates.start_date,
                                        end_date |-> dates.end_date])
           ELSE None
    [] rule = "status" ->
         IF ContainerStatusPatterns(w) /\ ExtractContainerId(w) # ""
           THEN IntentResult("container_status_lookup",
                             [container_id |-> ExtractContainerId(w)])
           ELSE None
    [] rule = "identifier" ->
         IF ExtractContainerId(w) # ""
           THEN IntentResult("container_status_lookup",
                             [container_id |-> ExtractContainerId(w)])
           ELSE None
    [] rule = "generic" ->
         IF ContainerGenericPatterns(w)
           THEN IntentResult("llm_analysis", [question |-> stripped]) ELSE None

\* (variant: the identifier rules come before the analysis keyword rule)
RuleOrderLookupBeforeAnalysis ==
  << "procedure", "manager", "daily", "range_containers", "range_vehicles",
     "comparison", "monthly", "status", "identifier", "analysis", "generic" >>

\* (variant: the single-month rule comes before the comparison rule)
RuleOrderMonthlyFirst ==
  << "procedure", "manager", "daily", "range_containers", "range_vehicles",
     "monthly", "comparison", "analysis", "status", "identifier", "generic" >>

\* The rules of match, in the order of its code.
RuleOrder ==
  << "procedure", "manager", "daily", "range_containers", "range_vehicles",
     "comparison", "monthly", "analysis", "status", "identifier", "generic" >>

\* The rules from the first of `rules` on: the value match returns, and the
\* rules it has evaluated on the way.
RECURSIVE Cascade(_, _, _, _, _)
Cascade(rules, stripped, w, today, consulted) ==
  IF rules = <<>> THEN [value |-> None, consulted |-> consulted]
  ELSE LET r == Rule(Head(rules), stripped, w, today)
       IN IF r # None
            THEN [value |-> r, consulted |-> Append(consulted, Head(rules))]
            ELSE Cascade(Tail(rules), stripped, w, today,
                         Append(consulted, Head(rules)))

IsWord(x) == ~IsSpace(x)

\* (variant: the message is not tested for being empty)
MatchUntested(text, today) ==
  Cascade(RuleOrder, Strip(text), SelectSeq(Strip(text), IsWord), today, <<>>)

\* IntentEngine.match on a day `today`
Match(text, today) ==
  LET stripped == Strip(text)
  IN IF ~Truthy(stripped) THEN [value |-> None, consulted |-> <<>>]
     ELSE Cascade(RuleOrder, stripped, SelectSeq(stripped, IsWord), today, <<>>)

\* ======================================================= match on its own

\* Most whitespace tokens before and after a message.
MaxPad == 1

Pads == {[i \in 1..n |-> " "] : n \in 0..MaxPad}

DateWords == {"1.2.24", "15.3.24", "31.2.24", "1.1.85"}

YearWords == {<<>>, <<"25">>, <<"2024">>, <<"85">>}

\* What a message opens with, goes on with and closes with.
Openings ==
  { <<>>, <<"nehalim">>, <<"ani", "menahel">>, <<"nituakh">>, <<"matsav">>,
    <<"oniya", "tor">> }

MonthPhrases ==
  { <<"bfebruar">>, <<"bfebruar?">>, <<"bfebaur">>, <<"bshavua">>, <<"februar">>,
    <<"b", "februar">>, <<"b", "March">>, <<"bkhodesh", "yanuar">> }

Questions ==
  { <<>>, <<"shalom">>, <<"mekholot">>, <<"kama", "mekholot", "hayom">> }
  \cup {<<"kama", noun, "bein", d1, "ad", d2>> :
          noun \in {"mekholot", "rekhavim"}, d1 \in DateWords, d2 \in DateWords}
  \cup {<<"kama", "mekholot", "bein", d1>> : d1 \in DateWords}
  \cup {<<"kama", "mekholot">> \o verb \o month \o year :
          verb \in {<<>>, <<"nifreku">>}, month \in MonthPhrases, year \in YearWords}
  \cup {<<"kama", "mekholot", month1, year1, "leumat">> \o month2 \o year2 :
          month1 \in {"byanuar", "bshavua"}, year1 \in {"2024", "25"},
          month2 \in {<<"yanuar">>, <<"bfebruar">>, <<"b", "februar">>, <<"shavua">>},
          year2 \in {<<>>, <<"2025">>}}

Closings ==
  { <<>>, <<"MSCU1234567">>, <<"mscu1234567">>, <<"123456789">>,
    <<"mismhola=12345">>, <<"nituakh">>, <<"hayom">>, <<"1.2.24", "1.1.85">> }

Todays == { [year |-> 2026, month |-> 11, day |-> 2],
            [year |-> 2024, month |-> 2, day |-> 29] }

MatchInputs ==
  {[text |-> left \o opening \o q \o closing \o right, today |-> today] :
     left \in Pads, opening \in Openings, q \in Questions, closing \in Closings,
     right \in Pads, today \in Todays}

MatchInit ==
  /\ CouncilIdle
  /\ EngineIdle
  /\ fpc = "called"
  /\ args \in MatchInputs
  /\ ret = <<>>

\* IntentEngine.match(text) returns.
MatchReturn ==
  /\ fpc = "called"
  /\ fpc' = "returned"
  /\ ret' = Match(args.text, args.today)
  /\ UNCHANGED <<args, cvars, svars>>

MatchNext == MatchReturn

MatchSpec == MatchInit /\ [][MatchNext]_vars

\* match on the messages that have no whitespace at their ends
TrimmedInputs ==
  {[text |-> opening \o q \o closing, today |-> today] :
     opening \in Openings, q \in Questions, closing \in Closings,
     today \in Todays}

TrimmedInit ==
  /\ CouncilIdle
  /\ EngineIdle
  /\ fpc = "called"
  /\ args \in TrimmedInputs
  /\ ret = <<>>

TrimmedSpec == TrimmedInit /\ [][MatchNext]_vars

\* ------------------------------------------------- the order of the rules

\* The message match has worked on, its words, and what one rule makes of it.
Stripped == Strip(args.text)

Words == SelectSeq(Stripped, IsWord)

RuleOn(rule) == Rule(rule, Stripped, Words, args.today)

\* The rule families in their order of precedence: procedure/policy,
\* manager role, daily and date range, comparison, single month, analysis
\* keyword, identifier lookup, generic keyword.
Families ==
  << {"procedure"}, {"manager"},
     {"daily", "range_containers", "range_vehicles"},
     {"comparison"}, {"monthly"}, {"analysis"},
     {"status", "identifier"}, {"generic"} >>

FamilyOf(rule) == CHOOSE f \in 1..Len(Families) : rule \in Families[f]

\* The rules by name, and what each of them makes of the message.
RuleNames ==
  { "procedure", "manager", "daily", "range_containers", "range_vehicles",
    "comparison", "monthly", "analysis", "status", "identifier", "generic" }

RuleOutcomes ==
  [ procedure |-> RuleOn("procedure"), manager |-> RuleOn("manager"),
    daily |-> RuleOn("daily"), range_containers |-> RuleOn("range_containers"),
    range_vehicles |-> RuleOn("range_vehicles"),
    comparison |-> RuleOn("comparison"), monthly |-> RuleOn("monthly"),
    analysis |-> RuleOn("analysis"), status |-> RuleOn("status"),
    identifier |-> RuleOn("identifier"), generic |-> RuleOn("generic") ]

\* the families with a rule that matches the message and extracts its
\* parameters
Matching(outcomes) ==
  {f \in 1..Len(Families) : \E rule \in Families[f] : outcomes[rule] # None}

\* C18: match returns the Command of the first family, in the order
\* procedure, manager, daily/range, comparison, single month, analysis,
\* identifier, generic, that matches the message and extracts its
\* parameters, and None when no family does; it evaluates no rule of a later
\* family, and none after the rule that matched; a message with a policy
\* keyword and a generic container keyword is a procedure_question.
C18_FirstFamilyWins ==
  (fpc = "returned" /\ Truthy(Stripped)) =>
    LET outcomes == RuleOutcomes
        matching == Matching(outcomes)
        first == Min(matching)
    IN /\ IF matching = {} THEN ret.value = None
          ELSE \E rule \in Families[first] :
                 outcomes[rule] # None /\ ret.value = outcomes[rule]
       /\ \A k \in 1..Len(ret.consulted) :
            /\ matching # {} => FamilyOf(ret.consulted[k]) <= first
            /\ k < Len(ret.consulted) => outcomes[ret.consulted[k]] = None
       /\ (outcomes.procedure # None /\ outcomes.generic # None) =>
            ret.value.name = "procedure_question"

\* A message that asks to compare two months, which the single-month rule
\* and the generic rule match as well, has come back as a comparison.
C18_Witness ==
  /\ fpc = "returned"
  /\ RuleOn("comparison") # None
  /\ RuleOn("monthly") # None
  /\ RuleOn("generic") # None
  /\ ret.value.name = "containers_count_comparison"
  /\ ret.consulted[Len(ret.consulted)] = "comparison"

\* ------------------------------------------------------- the empty message

\* C19: match works on the trimmed message: a message that is empty or all
\* whitespace comes back as None with no rule evaluated, and the question a
\* Command carries is the message without the whitespace at its ends.
C19_EmptyIsNone ==
  fpc = "returned" =>
    /\ (\A k \in 1..Len(args.text) : IsSpace(args.text[k])) =>
         ret = [value |-> None, consulted |-> <<>>]
    /\ ret.value.name \in {"procedure_question", "manager_question", "llm_analysis"} =>
         /\ ret.value.parameters.question = Stripped
         /\ IsWord(Head(ret.value.parameters.question))
         /\ IsWord(ret.value.parameters.question[Len(Stripped)])

\* A message of whitespace only has come back.
C19_Witness ==
  /\ fpc = "returned"
  /\ Len(args.text) > 0
  /\ \A k \in 1..Len(args.text) : IsSpace(args.text[k])
  /\ ret.value = None

\* --------------------------------------------------- rules that give up

\* The rule's pattern matches the message, for the rules that have
\* parameters to extract after it.
PatternMatches(rule) ==
  CASE rule = "range_containers" -> RangeContainerPattern(Words) # NoGroups
    [] rule = "range_vehicles" -> RangeVehiclesPattern(Words) # NoGroups
    [] rule = "comparison" ->
         LET groups == ComparisonMonthlyPatterns(Words)
         IN \E k \in 1..Len(groups) : groups[k] # NoGroups
    [] rule = "monthly" ->
         LET groups == MonthlyContainerPatterns(Words)
         IN \E k \in 1..Len(groups) : groups[k] # NoGroups
    [] rule = "status" -> ContainerStatusPatterns(Words)
    [] OTHER -> FALSE

\* the Commands of match
CommandNames ==
  { "procedure_question", "manager_question", "daily_containers_count",
    "containers_count_between", "vehicles_count_between",
    "containers_count_comparison", "containers_count_monthly",
    "llm_analysis", "container_status_lookup" }

\* the rules that come after `rule` in the order of precedence
LaterRules(rule) ==
  {later \in RuleNames :
     \/ FamilyOf(later) > FamilyOf(rule)
     \/ rule = "range_containers" /\ later = "range_vehicles"
     \/ rule = "status" /\ later = "identifier"}

\* C20: no exception leaves match: it returns one Command or None; and when
\* the pattern of a rule matches the message but its parameters cannot be
\* extracted (a month name it does not know, a date the calendar does not
\* have, a status keyword without an identifier), and no earlier rule has
\* answered, the answer is that of the rules after it.
C20_GivesUpAndGoesOn ==
  (fpc = "returned" /\ Truthy(Stripped)) =>
    /\ ret.value # Raises
    /\ ret.value = None \/ ret.value.name \in CommandNames
    /\ LET outcomes == RuleOutcomes
       IN \A rule \in {"range_containers", "range_vehicles", "comparison",
                       "monthly", "status"} :
            ( /\ outcomes[rule] \in {None, Raises}
              /\ \A earlier \in RuleNames \ LaterRules(rule) :
                   outcomes[earlier] \in {None, Raises}
              /\ PatternMatches(rule)
            ) =>
              /\ ret.value # Raises
              /\ IF \A later \in LaterRules(rule) : outcomes[later] = None
                   THEN ret.value = None
                   ELSE \E later \in LaterRules(rule) :
                          /\ outcomes[later] # None
                          /\ ret.value = outcomes[later]
                          /\ ret.consulted[Len(ret.consulted)] = later

\* A range question with a date the calendar does not have, a month
\* question with a month name that is none, and a status keyword without an
\* identifier have each come back from a later rule.
C20_Witness ==
  /\ fpc = "returned"
  /\ PatternMatches("range_containers")
  /\ RuleOn("range_containers") = None
  /\ PatternMatches("monthly")
  /\ RuleOn("monthly") = None
  /\ PatternMatches("status")
  /\ RuleOn("status") = None
  /\ ret.value.name = "llm_analysis"
  /\ ret.consulted[Len(ret.consulted)] = "generic"

\* ================================================= one engine, many calls

\* Most match calls of one run.
MaxCalls == 4

\* Messages whose Command depends on the day, and one that has none.
CallTexts ==
  { <<"kama", "mekholot", "hayom">>, <<"kama", "mekholot", "bfebruar">>,
    <<"shalom">> }

CallInputs == {[text |-> text, today |-> today] : text \in CallTexts, today \in Todays}

\* (variant: the engine keeps the last message and its Command, and answers
\* the same message from them)
MatchOnCached(self, text, today) ==
  IF self # <<>> /\ self.text = text
    THEN [value |-> self.value, self |-> self]
    ELSE [value |-> Match(text, today).value,
          self |-> [text |-> text, value |-> Match(text, today).value]]

\* match on the engine `self`: the value it returns and the attributes of
\* the engine after it; match assigns to none
MatchOn(self, text, today) ==
  [value |-> Match(text, today).value, self |-> self]

EngineInit == CouncilIdle /\ FunctionIdle /\ EngineIdle

\* A request calls intent_engine.match(text) on some day.
MatchCall ==
  /\ fpc \in {"idle", "returned"}
  /\ Len(served) < MaxCalls
  /\ fpc' = "called"
  /\ args' \in CallInputs
  /\ ret' = <<>>
  /\ UNCHANGED <<cvars, svars>>

\* The call returns.
MatchServe ==
  /\ fpc = "called"
  /\ LET outcome == MatchOn(intent_engine, args.text, args.today)
     IN /\ ret' = outcome.value
        /\ intent_engine' = outcome.self
        /\ served' = Append(served, [text |-> args.text, today |-> args.today,
                                     value |-> outcome.value])
  /\ fpc' = "returned"
  /\ UNCHANGED <<args, cvars, council_service, tasks, frames>>

EngineNext == MatchCall \/ MatchServe

EngineSpec == EngineInit /\ [][EngineNext]_vars

\* C21: two match calls with the same text on the same day return the same
\* Command, name and parameters, whatever calls were served between them;
\* and no call changes the engine.
C21_SameCallSameCommand ==
  /\ \A i, j \in 1..Len(served) :
       (served[i].text = served[j].text /\ served[i].today = served[j].today)
         => served[i].value = served[j].value
  /\ intent_engine = NewEngine

\* The same question has been served twice on one day, with the same
\* question on another day and another question between the two; the day's
\* Command differs from the other day's.
C21_Witness ==
  /\ Len(served) = 4
  /\ served[1].text = served[4].text /\ served[1].today = served[4].today
  /\ served[2].text = served[1].text /\ served[2].today # served[1].today
  /\ served[2].value # served[1].value
  /\ served[3].text # served[1].text
  /\ served[4].value.name = "daily_containers_count"

\* ==================================================== years of two digits

\* The year tokens a comparison's second month is tried with.
BoundaryYears == {"00", "79", "80", "99"}

\* A question of each kind that carries a year, for the n-th year token.
YearQuestions(n) ==
  { [shape |-> "range", year |-> n, year2 |-> "",
     text |-> <<"kama", "mekholot", "bein", NewYearWords[n], "ad", "15.3.24">>],
    [shape |-> "analysis", year |-> n, year2 |-> "",
     text |-> <<"nituakh", "15.3.24", NewYearWords[n]>>],
    [shape |-> "monthly", year |-> n, year2 |-> "",
     text |-> <<"kama", "mekholot", "bfebruar", YearTokens[n]>>],
    [shape |-> "comparison", year |-> n, year2 |-> "",
     text |-> <<"kama", "mekholot", "byanuar", YearTokens[n], "leumat", "februar">>] }
  \cup
  { [shape |-> "comparison", year |-> n, year2 |-> y2,
     text |-> <<"kama", "mekholot", "byanuar", YearTokens[n], "leumat", "februar", y2>>] :
      y2 \in BoundaryYears }

YearInputs ==
  { [shape |-> q.shape, year |-> q.year, year2 |-> q.year2, text |-> q.text,
     today |-> today] :
      q \in UNION {YearQuestions(n) : n \in 1..Len(YearTokens)}, today \in Todays }

YearInit ==
  /\ CouncilIdle
  /\ EngineIdle
  /\ fpc = "called"
  /\ args \in YearInputs
  /\ ret = <<>>

YearSpec == YearInit /\ [][MatchNext]_vars

\* the year a two-digit value Y stands for
Expanded(Y) == IF Y < 80 THEN 2000 + Y ELSE 1900 + Y

\* the value of a year token of two digits
ValueOf(token) == IndexIn(YearTokens, token) - 1

\* C22: a year of two digits Y is read as 2000+Y when Y < 80 and as 1900+Y
\* otherwise (00 is 2000, 79 is 2079, 80 is 1980, 99 is 1999), alike in the
\* dates of a range, in the month of a single-month Command and in both
\* months of a comparison.
C22_CenturyPivot ==
  fpc = "returned" =>
    LET Y == args.year - 1
        p == ret.value.parameters
        newyear == [year |-> Expanded(Y), month |-> 1, day |-> 1]
    IN /\ Expanded(0) = 2000 /\ Expanded(79) = 2079
       /\ Expanded(80) = 1980 /\ Expanded(99) = 1999
       /\ args.shape = "range" =>
            /\ ret.value.name = "containers_count_between"
            /\ newyear \in {p.start_date, p.end_date}
       /\ args.shape = "analysis" =>
            /\ ret.value.name = "llm_analysis"
            /\ newyear \in {p.start_date, p.end_date}
       /\ args.shape = "monthly" =>
            /\ ret.value.name = "containers_count_monthly"
            /\ p.year = Expanded(Y)
       /\ args.shape = "comparison" =>
            /\ ret.value.name = "containers_count_comparison"
            /\ p.year1 = Expanded(Y)
            /\ args.year2 # "" => p.year2 = Expanded(ValueOf(args.year2))

\* A comparison of a month of 79 with a month of 80 has come back as one of
\* 2079 with 1980.
C22_Witness ==
  /\ fpc = "returned"
  /\ args.shape = "comparison"
  /\ YearTokens[args.year] = "79"
  /\ args.year2 = "80"
  /\ ret.value.parameters.year1 = 2079
  /\ ret.value.parameters.year2 = 1980

\* ------------------------------------------------ a month without a year

\* The groups of the first pattern of the single-month rule, and of the
\* comparison rule, whose groups are parsed (the message is one that the
\* rule answers).
MonthlyGroups ==
  LET groups == MonthlyContainerPatterns(Words)
      K == {k \in 1..Len(groups) :
              groups[k] # NoGroups /\ ParseMonthGroups(groups[k], args.today) # NoParams}
  IN groups[Min(K)]

ComparisonGroups ==
  LET groups == ComparisonMonthlyPatterns(Words)
      K == {k \in 1..Len(groups) :
              groups[k] # NoGroups /\ ParseComparison(groups[k], args.today) # NoParams}
  IN groups[Min(K)]

\* C23 as stated: a month extracted without a year takes the current year,
\* in the single-month Command and in either pair of a comparison.
C23_DefaultIsCurrentYear ==
  fpc = "returned" =>
    /\ (ret.value.name = "containers_count_monthly" /\ MonthlyGroups.year = "") =>
         ret.value.parameters.year = args.today.year
    /\ (ret.value.name = "containers_count_comparison" /\ ComparisonGroups.year1 = "") =>
         ret.value.parameters.year1 = args.today.year
    /\ (ret.value.name = "containers_count_comparison" /\ ComparisonGroups.year2 = "") =>
         ret.value.parameters.year2 = args.today.year

\* C23: a month extracted without a year takes the current year in the
\* single-month Command; in a comparison the first month always has a year
\* of its own, and a second month without a year takes the first month's.
C23_DefaultYear ==
  fpc = "returned" =>
    /\ (ret.value.name = "containers_count_monthly" /\ MonthlyGroups.year = "") =>
         ret.value.parameters.year = args.today.year
    /\ ret.value.name = "containers_count_comparison" =>
         /\ ComparisonGroups.year1 # ""
         /\ ComparisonGroups.year2 = "" =>
              ret.value.parameters.year2 = ret.value.parameters.year1

\* A comparison whose second month has no year has come back with the first
\* month's year, which is not the current one.
C23_Witness ==
  /\ fpc = "returned"
  /\ ret.value.name = "containers_count_comparison"
  /\ ComparisonGroups.year2 = ""
  /\ ret.value.parameters.year2 = ret.value.parameters.year1
  /\ ret.value.parameters.year2 # args.today.year

\* ------------------------------------------------------------ date ranges

\* a date as one number that grows with time
DayNumber(d) == d.year * 10000 + d.month * 100 + d.day

\* the Command carries a date range
HasRange == "start_date" \in DOMAIN ret.value.parameters

\* the dates of the message that the calendar has, in the order of the text
DatesWritten ==
  SelectSeq([k \in 1..Len(Words) |-> ParseDate(Words[k])], LAMBDA d : d # NoDate)

\* C24: every date range of a Command (containers_count_between,
\* vehicles_count_between, and the range of an llm_analysis that has one)
\* has start_date <= end_date, in whichever order the message gives the two
\* dates.
C24_RangeOrdered ==
  (fpc = "returned" /\ ret.value # None) =>
    /\ ret.value.name \in {"containers_count_between", "vehicles_count_between"} =>
         HasRange
    /\ HasRange =>
         /\ ret.value.name \in {"containers_count_between", "vehicles_count_between",
                                "llm_analysis"}
         /\ DayNumber(ret.value.parameters.start_date)
              <= DayNumber(ret.value.parameters.end_date)
         /\ {ret.value.parameters.start_date, ret.value.parameters.end_date}
              = {DatesWritten[1], DatesWritten[2]}

\* A range question that gives the later date first has come back with the
\* two dates exchanged.
C24_Witness ==
  /\ fpc = "returned"
  /\ ret.value.name = "vehicles_count_between"
  /\ DayNumber(DatesWritten[1]) > DayNumber(DatesWritten[2])
  /\ ret.value.parameters.start_date = DatesWritten[2]
  /\ ret.value.parameters.end_date = DatesWritten[1]

\* C25: a range Command comes only from a message with two dates that the
\* calendar has; on a message with fewer (one date only, or one of the two
\* not a calendar date) neither range rule answers, no exception leaves
\* match, and the answer is that of the rules after the range rules.
C25_OneDateFallsThrough ==
  (fpc = "returned" /\ Truthy(Stripped)) =>
    LET outcomes == RuleOutcomes
        later == LaterRules("range_vehicles")
    IN /\ ret.value.name \in {"containers_count_between", "vehicles_count_between"} =>
            Len(DatesWritten) >= 2
       /\ Len(DatesWritten) < 2 =>
            /\ ret.value # Raises
            /\ outcomes.range_containers = None
            /\ outcomes.range_vehicles = None
            /\ ( /\ outcomes.procedure = None
                 /\ outcomes.manager = None
                 /\ outcomes.daily = None ) =>
                 IF \A rule \in later : outcomes[rule] = None
                   THEN ret.value = None /\ Len(ret.consulted) = Cardinality(RuleNames)
                   ELSE /\ ret.consulted[Len(ret.consulted)] \in later
                        /\ ret.value = outcomes[ret.consulted[Len(ret.consulted)]]

\* A range question whose first date the calendar does not have has been
\* answered by the generic rule.
C25_Witness ==
  /\ fpc = "returned"
  /\ PatternMatches("range_containers")
  /\ Len(DatesWritten) = 1
  /\ ret.value.name = "llm_analysis"
  /\ ret.consulted[Len(ret.consulted)] = "generic"

\* ------------------------------------------------------ identifier lookup

\* the first identifier of the fixed shapes in the message ("" for none)
IdentifierWritten == FirstIn(Words, ContainerIdIn)

\* the rules of policy, of role and of dates and months
PolicyRoleDateRules ==
  { "procedure", "manager", "daily", "range_containers", "range_vehicles",
    "comparison", "monthly" }

\* the Command answers by one of the rules of `rules`
AnsweredBy(outcomes, rules) ==
  /\ ret.consulted # <<>>
  /\ ret.consulted[Len(ret.consulted)] \in rules
  /\ ret.value = outcomes[ret.consulted[Len(ret.consulted)]]
  /\ ret.value # None

Lookup(id) == IntentResult("container_status_lookup", [container_id |-> id])

\* C26 as stated: a message with an identifier comes back as
\* container_status_lookup with that identifier, keyword or not, as soon as
\* every policy, role and date rule has failed; and as the Command of one of
\* those rules when one matches.
C26_LookupAfterPolicyRoleDate ==
  (fpc = "returned" /\ IdentifierWritten # "") =>
    LET outcomes == RuleOutcomes
    IN IF \A rule \in PolicyRoleDateRules : outcomes[rule] = None
         THEN ret.value = Lookup(Upper(IdentifierWritten))
         ELSE AnsweredBy(outcomes, PolicyRoleDateRules)

\* C26: a message with an identifier (four letters and seven digits, or
\* nine to twelve digits) comes back as container_status_lookup with that
\* identifier in upper case, keyword or not, when every policy, role, date
\* and month rule and the analysis keyword rule have failed; and as the
\* Command of one of those rules when one matches.
C26_LookupAfterEarlierRules ==
  (fpc = "returned" /\ IdentifierWritten # "") =>
    LET outcomes == RuleOutcomes
        earlier == PolicyRoleDateRules \cup {"analysis"}
    IN IF \A rule \in earlier : outcomes[rule] = None
         THEN /\ ret.value = Lookup(Upper(IdentifierWritten))
              /\ ret.consulted[Len(ret.consulted)] =
                   IF ContainerStatusPatterns(Words) THEN "status" ELSE "identifier"
         ELSE AnsweredBy(outcomes, earlier)

\* An identifier in lower case, with no lookup keyword beside it, has come
\* back as a lookup of the identifier in upper case.
C26_Witness ==
  /\ fpc = "returned"
  /\ IdentifierWritten = "mscu1234567"
  /\ ~ContainerStatusPatterns(Words)
  /\ ret.value = Lookup("MSCU1234567")
  /\ ret.consulted[Len(ret.consulted)] = "identifier"

\* ================================================= _parse_month on its own

\* The keys of month_names_he.
HebrewKeys ==
  { "yanuar", "februar", "febaur", "febuar", "merts", "mars", "maars", "apreel",
    "mai", "yuni", "yuli", "ogust", "septembr", "oktobr", "novembr", "detsembr" }

\* Month names a message may give: the keys of the two tables, the English
\* names capitalised or in capitals, a name with a question mark, and
\* words that are no month.
MonthNameInputs ==
  HebrewKeys
    \cup {EnglishMonths[n] : n \in 1..12} \cup {CapitalisedMonths[n] : n \in 1..12}
    \cup {"MARCH", "februar?", "shavua", ""}

MonthInputs ==
  {[month_name |-> name, year |-> year, today |-> today] :
     name \in MonthNameInputs, year \in {"", "25", "2024", "85"}, today \in Todays}

MonthInit ==
  /\ CouncilIdle
  /\ EngineIdle
  /\ fpc = "called"
  /\ args \in MonthInputs
  /\ ret = <<>>

\* _parse_month(groups) returns.
ParseMonthReturn ==
  /\ fpc = "called"
  /\ fpc' = "returned"
  /\ ret' = ParseMonth(args.month_name, args.year, args.today)
  /\ UNCHANGED <<args, cvars, svars>>

MonthNext == ParseMonthReturn

MonthSpec == MonthInit /\ [][MonthNext]_vars

\* The Hebrew name of each month, in the spelling of the calendar.
HebrewMonths ==
  << "yanuar", "februar", "merts", "apreel", "mai", "yuni", "yuli", "ogust",
     "septembr", "oktobr", "novembr", "detsembr" >>

\* the month a name is the Hebrew or English name of (0 for neither)
MonthNamed(name) ==
  IF \E n \in 1..12 : name \in {HebrewMonths[n], EnglishMonths[n], CapitalisedMonths[n]}
    THEN CHOOSE n \in 1..12 :
           name \in {HebrewMonths[n], EnglishMonths[n], CapitalisedMonths[n]}
    ELSE 0

\* the names, other than its Hebrew and English name, that _parse_month
\* reads as month n
Misspellings(n) ==
  {name \in MonthNameInputs :
     /\ name \notin {"", "februar?"}
     /\ MonthNamed(name) = 0
     /\ Lower(name) \notin {EnglishMonths[k] : k \in 1..12}
     /\ ParseMonth(name, "", args.today) # NoParams
     /\ ParseMonth(name, "", args.today).month = n}

\* C27: _parse_month reads the Hebrew name and the English name of each of
\* the twelve months as the month's number, and for the month it has just
\* read there is at least one misspelling that it reads as the same month.
C27_NamesAndMisspellings ==
  (fpc = "returned" /\ MonthNamed(args.month_name) # 0) =>
    /\ ret # NoParams
    /\ ret.month = MonthNamed(args.month_name)
    /\ Misspellings(ret.month) # {}

\* What holds of the names: the Hebrew and the English name of every month
\* are read as its number.
C27_NamesOnly ==
  (fpc = "returned" /\ MonthNamed(args.month_name) # 0) =>
    /\ ret # NoParams
    /\ ret.month = MonthNamed(args.month_name)

\* -------------------------------------- "how many ... in February 25"

\* C28: the question "kama mekholot nifreku bfebruar 25" (how many
\* containers were unloaded in February 25), with the month in the
\* calendar's spelling or misspelt, comes back as containers_count_monthly
\* with month 2 and year 2025, on whatever day it is asked.
C28_FebruaryOf25 ==
  ( /\ fpc = "returned"
    /\ \E month \in {"bfebruar", "bfebaur"} :
         Words = <<"kama", "mekholot", "nifreku", month, "25">> ) =>
    ret.value = IntentResult("containers_count_monthly", [month |-> 2, year |-> 2025])

\* The question with the misspelt month has come back as February 2025, in
\* a year that is not 2025.
C28_Witness ==
  /\ fpc = "returned"
  /\ Words = <<"kama", "mekholot", "nifreku", "bfebaur", "25">>
  /\ args.today.year # 2025
  /\ ret.value.name = "containers_count_monthly"
  /\ ret.value.parameters = [month |-> 2, year |-> 2025]
  /\ ret.consulted[Len(ret.consulted)] = "monthly"

\* ==================================================== the two routes
\*
\* handle_webhook (routes/webhook.py) and chat_query (routes/chat.py) on one
\* message: the Command each obtains from the engine and the calls each
\* makes to the services behind it.  The services are those of the
\* application state, each present or None; the data store's replies are
\* inputs.

\*   hanamal הנמל   asa עשה   {{SWE001}} the template code of SWE_TEMPLATE_MAP

\* SWE_TEMPLATE_MAP.get: the question a template code stands for (<<>> for
\* a text that is no code)
SweTemplateMap(text) ==
  IF text = <<"{{SWE001}}">>
    THEN <<"kama", "mekholot", "hanamal", "asa", "byanuar", "2024">>
    ELSE <<>>

\* supabase_service.get_recent_user_queries: the earlier turns the store
\* holds for the chat
GetRecentUserQueries(store) == store.history

\* supabase_service.get_containers_count_monthly
GetContainersCountMonthly(store) == store.count

NoHistory == <<"None">>

\* A call to a service, and the answer from an LLM service if there is one:
\* the Council first, then Gemini, else none.
Call(to, arguments) == [to |-> to, arguments |-> arguments]

AnswerQuestion(services, asked, conversation_history) ==
  IF services.council
    THEN <<Call("council_service.answer_question",
                [question |-> asked, conversation_history |-> conversation_history])>>
  ELSE IF services.gemini
    THEN <<Call("gemini_service.answer_question",
                [question |-> asked, conversation_history |-> conversation_history])>>
  ELSE <<>>

\* chat_query's llm_analysis branch asks Gemini only
AnswerQuestionGemini(services, asked, conversation_history) ==
  IF services.gemini
    THEN <<Call("gemini_service.answer_question",
                [question |-> asked, conversation_history |-> conversation_history])>>
    ELSE <<>>

Outcome(status, command, branch, calls) ==
  [status |-> status, command |-> command, branch |-> branch, calls |-> calls]

\* no Command was asked for
NoCommand == [name |-> "unmatched", parameters |-> NoParams]

\* handle_webhook's dispatch on the engine's answer (webhook.py 342-618)
WebhookDispatch(intent, incoming_text, services, conversation_history, store) ==
  IF intent = None
    THEN Outcome(202, intent, "unstructured",
                 AnswerQuestion(services, incoming_text, conversation_history))
  ELSE IF intent.name = "daily_containers_count"
    THEN Outcome(202, intent, "daily_containers_count",
                 <<Call("supabase_service.get_daily_containers_count",
                        intent.parameters)>>)
  ELSE IF intent.name = "containers_count_between"
    THEN Outcome(202, intent, "containers_count_between",
                 <<Call("supabase_service.get_containers_count_between",
                        intent.parameters)>>)
  ELSE IF intent.name = "vehicles_count_between"
    THEN Outcome(202, intent, "vehicles_count_between",
                 <<Call("supabase_service.get_vehicle_count_between",
                        intent.parameters)>>)
  ELSE IF intent.name = "containers_count_monthly"
    THEN Outcome(202, intent, "containers_count_monthly",
                 <<Call("supabase_service.get_containers_count_monthly",
                        intent.parameters)>>
                 \o (IF GetContainersCountMonthly(store) = 0
                       THEN AnswerQuestion(services, incoming_text,
                                           conversation_history)
                       ELSE <<>>))
  ELSE IF intent.name = "containers_count_comparison"
    THEN Outcome(202, intent, "containers_count_comparison",
                 <<Call("supabase_service.get_containers_count_comparison",
                        intent.parameters)>>)
  ELSE IF intent.name = "llm_analysis"
    THEN Outcome(202, intent, "llm_analysis",
                 AnswerQuestion(services, incoming_text, conversation_history))
  ELSE IF intent.name = "container_status_lookup"
    THEN Outcome(202, intent, "container_status_lookup",
                 IF services.container_status
                   THEN <<Call("container_status_service.lookup",
                               intent.parameters)>>
                   ELSE <<>>)
  ELSE IF intent.name = "manager_question"
    THEN Outcome(202, intent, "manager_question",
                 IF services.manager_gpt
                   THEN <<Call("manager_gpt_service.answer_manager_question",
                               intent.parameters)>>
                   ELSE <<>>)
  ELSE IF intent.name = "monthly_containers_graph"
    THEN Outcome(202, intent, "monthly_containers_graph",
                 <<Call("supabase_service.get_monthly_containers_series_last_year",
                        intent.parameters)>>)
  ELSE IF intent.name = "procedure_question"
    THEN Outcome(202, intent, "procedure_question",
                 <<Call("notebooklm", intent.parameters)>>)
  ELSE Outcome(501, intent, "unknown", <<>>)

\* handle_webhook on an incoming text message that passes authorization
HandleWebhook(text, today, services, store) ==
  IF ~Truthy(text) THEN Outcome(204, NoCommand, "ignored", <<>>)
  ELSE
    CHOOSE outcome \in
      { WebhookDispatch(intent, incoming_text, services,
                        GetRecentUserQueries(store), store) :
          <<incoming_text, intent>> \in
            { <<mapped, Match(mapped, today).value>> :
                mapped \in { IF Truthy(SweTemplateMap(Strip(text)))
                               THEN SweTemplateMap(Strip(text)) ELSE text } } } :
      TRUE

\* chat_query's dispatch on the engine's answer (chat.py 1069-1222)
ChatDispatch(intent, incoming_text, services, conversation_history) ==
  IF intent = None
    THEN Outcome(200, intent, "unstructured",
                 AnswerQuestion(services, incoming_text, conversation_history))
  ELSE IF intent.name = "containers_count_monthly"
    THEN Outcome(200, intent, "containers_count_monthly",
                 <<Call("supabase_service.get_containers_count_monthly",
                        intent.parameters)>>)
  ELSE IF intent.name = "containers_count_daily"
    THEN Outcome(200, intent, "containers_count_daily",
                 <<Call("supabase_service.get_daily_container_count",
                        intent.parameters)>>)
  ELSE IF intent.name = "containers_count_range"
    THEN Outcome(200, intent, "containers_count_range",
                 <<Call("supabase_service.get_container_count_range",
                        intent.parameters)>>)
  ELSE IF intent.name = "containers_comparison"
    THEN Outcome(200, intent, "containers_comparison",
                 <<Call("supabase_service.get_container_count_range",
                        intent.parameters),
                   Call("supabase_service.get_container_count_range",
                        intent.parameters)>>)
  ELSE IF intent.name = "vehicles_count_range"
    THEN Outcome(200, intent, "vehicles_count_range",
                 <<Call("supabase_service.get_vehicle_count_range",
                        intent.parameters)>>)
  ELSE IF intent.name = "container_status_lookup"
    THEN Outcome(200, intent, "container_status_lookup",
                 IF services.container_status
                   THEN <<Call("container_status_service.lookup",
                               intent.parameters)>>
                   ELSE <<>>)
  ELSE IF intent.name = "manager_question"
    THEN Outcome(200, intent, "manager_question",
                 IF services.manager_gpt
                   THEN <<Call("manager_gpt_service.answer_manager_question",
                               intent.parameters)>>
                   ELSE <<>>)
  ELSE IF intent.name = "llm_analysis"
    THEN Outcome(200, intent, "llm_analysis",
                 AnswerQuestionGemini(services, incoming_text,
                                      conversation_history))
  ELSE Outcome(200, intent, "unknown", <<>>)

\* chat_query on a request with a question, with or without a user_id
ChatQuery(text, today, services, store, user_id) ==
  IF ~Truthy(Strip(text)) THEN Outcome(400, NoCommand, "rejected", <<>>)
  ELSE
    CHOOSE outcome \in
      { ChatDispatch(intent, incoming_text, services,
                     IF user_id THEN GetRecentUserQueries(store) ELSE NoHistory) :
          <<incoming_text, intent>> \in
            { <<stripped, Match(stripped, today).value>> :
                stripped \in {Strip(text)} } } :
      TRUE

\* A message of each kind: for every Command, for none, a template code,
\* and the empty and the padded ones.
RouteTexts ==
  { <<>>, <<" ">>, <<"shalom">>, <<" ", "shalom">>, <<"{{SWE001}}">>,
    <<"mekholot">>, <<"nituakh">>, <<"nehalim">>, <<"nehalim", "mekholot">>,
    <<"ani", "menahel">>, <<"kama", "mekholot", "hayom">>,
    <<"kama", "mekholot", "bein", "1.2.24", "ad", "15.3.24">>,
    <<"kama", "rekhavim", "bein", "1.2.24", "ad", "15.3.24">>,
    <<"kama", "mekholot", "bfebruar", "2024">>,
    <<"kama", "mekholot", "byanuar", "2024", "leumat", "februar", "2025">>,
    <<"MSCU1234567">>, <<"matsav", "mekholot", "MSCU1234567">> }

\* The services of the application state: present (TRUE) or None.
ServiceSets ==
  [council : BOOLEAN, gemini : BOOLEAN, container_status : BOOLEAN,
   manager_gpt : BOOLEAN]

\* What the data store replies: the earlier turns of the chat and the
\* month's count.
StoreReplies == [history : {<<>>, <<"turn">>}, count : {0, 3}]

RouteInputs ==
  [text : RouteTexts, today : Todays, services : ServiceSets,
   store : StoreReplies, user_id : BOOLEAN]

\* a route that has not answered yet
Pending == Outcome(0, NoCommand, "pending", <<>>)

RouteInit ==
  /\ CouncilIdle
  /\ EngineIdle
  /\ fpc = "called"
  /\ args \in RouteInputs
  /\ ret = [webhook |-> Pending, chat |-> Pending]

\* The message arrives by WhatsApp: handle_webhook answers.
WebhookReturn ==
  /\ fpc = "called"
  /\ ret.webhook = Pending
  /\ ret' = [ret EXCEPT !.webhook =
               HandleWebhook(args.text, args.today, args.services, args.store)]
  /\ fpc' = IF ret.chat # Pending THEN "returned" ELSE "called"
  /\ UNCHANGED <<args, cvars, svars>>

\* The message arrives by the web chat: chat_query answers.
ChatReturn ==
  /\ fpc = "called"
  /\ ret.chat = Pending
  /\ ret' = [ret EXCEPT !.chat =
               ChatQuery(args.text, args.today, args.services, args.store,
                         args.user_id)]
  /\ fpc' = IF ret.webhook # Pending THEN "returned" ELSE "called"
  /\ UNCHANGED <<args, cvars, svars>>

RouteNext == WebhookReturn \/ ChatReturn

RouteSpec == RouteInit /\ [][RouteNext]_vars

\* the service calls of an outcome without their context arguments: which
\* service, and the question or the parameters it is given
Dispatch(outcome) ==
  [k \in 1..Len(outcome.calls) |->
     [to |-> outcome.calls[k].to,
      arguments |-> IF "question" \in DOMAIN outcome.calls[k].arguments
                      THEN outcome.calls[k].arguments.question
                      ELSE outcome.calls[k].arguments]]

\* the message is answered by the generic keyword rule alone
GenericOnly ==
  LET m == Match(args.text, args.today)
  IN /\ Truthy(Strip(args.text))
     /\ m.consulted # <<>>
     /\ m.consulted[Len(m.consulted)] = "generic"
     /\ m.value # None

\* C29: a message that no earlier rule answers and that holds a generic
\* keyword is an llm_analysis Command, and each route, where the Council
\* is configured, calls council_service.answer_question with the text as
\* the question.
C29_GenericGoesToCouncil ==
  (fpc = "returned" /\ GenericOnly /\ args.services.council) =>
    /\ ret.webhook.command.name = "llm_analysis"
    /\ ret.chat.command.name = "llm_analysis"
    /\ Dispatch(ret.webhook) =
         <<[to |-> "council_service.answer_question", arguments |-> args.text]>>
    /\ Dispatch(ret.chat) =
         <<[to |-> "council_service.answer_question", arguments |-> Strip(args.text)]>>

\* What holds of C29: the Command is llm_analysis on both routes, and the
\* WhatsApp route calls the Council with the text.
C29_WebhookOnly ==
  (fpc = "returned" /\ GenericOnly /\ args.services.council) =>
    /\ ret.webhook.command.name = "llm_analysis"
    /\ ret.chat.command.name = "llm_analysis"
    /\ Dispatch(ret.webhook) =
         <<[to |-> "council_service.answer_question", arguments |-> args.text]>>

\* C30: the two routes obtain the same Command for a text and make the same
\* dispatch: the same service call for a Command, the same Consensus Engine
\* call with the text as question for none.
C30_SameDispatch ==
  fpc = "returned" =>
    /\ ret.webhook.command = ret.chat.command
    /\ Dispatch(ret.webhook) = Dispatch(ret.chat)
    /\ (ret.webhook.command = None /\ args.services.council) =>
         Dispatch(ret.webhook) =
           <<[to |-> "council_service.answer_question", arguments |-> args.text]>>

\* ------------------------------------------------ the handlers of a router

\* C31: every Command that match produces has a handler branch of its own
\* in each router: neither handle_webhook (HTTP 501) nor chat_query (the
\* fallback text) answers a Command from its unknown-name branch.
C31_EveryCommandHandled ==
  fpc = "returned" =>
    /\ ret.webhook.branch # "unknown" /\ ret.webhook.status # 501
    /\ ret.chat.branch # "unknown"

\* What holds of C31: handle_webhook has a branch for every Command, and
\* chat_query has one for the month count, the status lookup, the manager
\* question and the analysis, and none for the others.
C31_WebhookHandlesAll ==
  fpc = "returned" =>
    /\ ret.webhook.branch # "unknown" /\ ret.webhook.status # 501
    /\ ret.webhook.status = 202 =>
         ret.webhook.branch =
           (IF ret.webhook.command = None THEN "unstructured"
                                          ELSE ret.webhook.command.name)
    /\ ret.chat.branch = "unknown" <=>
         ret.chat.command.name \in
           { "daily_containers_count", "containers_count_between",
             "vehicles_count_between", "containers_count_comparison",
             "procedure_question" }

\* ------------------------------------------------- labels of one request

\* the labels of the council's models that are "Response" and one letter and
\* that the ranking parser's two patterns find in a ranking line
RecognisedLabels ==
  { l \in {Label(i) : i \in Models} :
      /\ IsLabel(l)
      /\ LabelsIn(<<"1.", l, "text">>) = <<l>>
      /\ NumberedLabelsIn(<<"1.", l, "text">>) = <<l>> }

\* C32: while a request is past round 1, its labels map one-to-one onto the
\* successful round-1 answers: there are as many labels as successes, each
\* is "Response" and one letter that the ranking parser's pattern
\* recognises, every successful backend has exactly one label and no two
\* backends have the same one.
C32_LabelsAreBijection ==
  (PastRound1 /\ Survivors # {}) =>
    /\ Cardinality(DOMAIN label_to_model) = Cardinality(Survivors)
    /\ Cardinality(DOMAIN label_to_model) = Len(stage1_results)
    /\ \A l \in DOMAIN label_to_model : l \in RecognisedLabels
    /\ \A i \in Survivors :
         Cardinality({l \in DOMAIN label_to_model :
                        label_to_model[l] = council_models[i]}) = 1
    /\ \A l1, l2 \in DOMAIN label_to_model :
         label_to_model[l1] = label_to_model[l2] => l1 = l2

\* All the backends answered in round 1 and the request has labelled them.
C32_Witness ==
  /\ pc = "round2"
  /\ Cardinality(Survivors) = NumModels
  /\ Cardinality(DOMAIN label_to_model) = NumModels

\* ============================== two answer_question calls on one service

\* The questions of the two requests.
AskedQuestion == [c \in Calls |-> IF c = "first" THEN <<"q">> ELSE <<"p">>]

\* What the council models may reply to one stage-1 round and to one
\* stage-2 round, and the chairman to his call.
Stage1Replies ==
  [Models -> {Failure("error"), Reply(<<"a">>), Reply(<<"b">>)}]

Stage2Replies ==
  { [i \in Models |-> Failure("error")],
    [i \in Models |->
       Reply(<<"eval", "FINAL RANKING:", "1.", "Response B", "2.", "Response A">>)],
    [i \in Models |-> IF i = 1 THEN Reply(<<"Response A", "is", "best">>)
                               ELSE Failure("timeout")] }

\* the local variables of answer_question; `synthesis` is the stage1_results
\* argument that _stage3_synthesize_final was called with
Locals(q, s1, l2m, s2, synthesis) ==
  [live |-> TRUE, question |-> q, stage1_results |-> s1, label_to_model |-> l2m,
   stage2_results |-> s2, synthesis |-> synthesis]

\* what a call with answers of its own is expected to return after
\* stage 1: it does not return there
NoReturnHere == <<"no-return-after-stage-1">>

ConcurrentInit ==
  /\ CouncilIdle
  /\ FunctionIdle
  /\ EngineIdle

\* A request calls answer_question: up to the await of stage 1.
CallStart(c, q) ==
  /\ tasks[c].pc = "idle"
  /\ tasks' = [tasks EXCEPT ![c] =
                 [pc |-> "round1", own |-> Locals(q, <<>>, <<>>, <<>>, <<>>)]]
  /\ frames' = [frames EXCEPT ![Frame(c)] = Locals(q, <<>>, <<>>, <<>>, <<>>)]
  /\ UNCHANGED <<cvars, fvars, intent_engine, served, council_service>>

\* The stage-1 gather of a call returns: answer_question assigns
\* stage1_results and either returns the no-answers message or goes on to
\* label the results and to await stage 2.
Stage1Return(c, replies) ==
  /\ tasks[c].pc = "round1"
  /\ LET s1 == Stage1Results(replies)
         assigned == [frames EXCEPT ![Frame(c)].stage1_results = s1]
         seen == assigned[Frame(c)].stage1_results
         own == [tasks[c].own EXCEPT !.stage1_results = s1]
     IN IF NoResults(seen)
          THEN /\ tasks' = [tasks EXCEPT ![c] =
                              [pc |-> "done", result |-> NoAnswersMessage,
                               expected |-> IF NoResults(s1) THEN NoAnswersMessage
                                                             ELSE NoReturnHere]]
               /\ frames' = [assigned EXCEPT ![Frame(c)] = NoFrame]
          ELSE /\ tasks' = [tasks EXCEPT ![c] =
                              [pc |-> "round2",
                               own |-> [own EXCEPT !.label_to_model = LabelToModel(s1)]]]
               /\ frames' = [assigned EXCEPT ![Frame(c)].label_to_model =
                                               LabelToModel(seen)]
  /\ UNCHANGED <<cvars, fvars, intent_engine, served, council_service>>

\* The stage-2 gather of a call returns: answer_question assigns
\* stage2_results and calls _stage3_synthesize_final with its
\* stage1_results, up to the await of the chairman.
Stage2Return(c, replies) ==
  /\ tasks[c].pc = "round2"
  /\ LET s2 == Stage2Results(replies)
     IN /\ tasks' = [tasks EXCEPT ![c] =
                       [pc |-> "round3",
                        own |-> [tasks[c].own EXCEPT
                                   !.stage2_results = s2,
                                   !.synthesis = tasks[c].own.stage1_results]]]
        /\ frames' = [frames EXCEPT
                        ![Frame(c)].stage2_results = s2,
                        ![Frame(c)].synthesis = frames[Frame(c)].stage1_results]
  /\ UNCHANGED <<cvars, fvars, intent_engine, served, council_service>>

\* The chairman call of a call returns: answer_question returns the final
\* response and its frame is gone.
Stage3Return(c, response) ==
  /\ tasks[c].pc = "round3"
  /\ tasks' = [tasks EXCEPT ![c] =
                 [pc |-> "done",
                  result |-> FinalResponse(response, frames[Frame(c)].synthesis,
                                           frames[Frame(c)].stage2_results),
                  expected |-> FinalResponse(response, tasks[c].own.synthesis,
                                             tasks[c].own.stage2_results)]]
  /\ frames' = [frames EXCEPT ![Frame(c)] = NoFrame]
  /\ UNCHANGED <<cvars, fvars, intent_engine, served, council_service>>

ConcurrentNext ==
  \/ \E c \in Calls : CallStart(c, AskedQuestion[c])
  \/ \E c \in Calls, replies \in Stage1Replies : Stage1Return(c, replies)
  \/ \E c \in Calls, replies \in Stage2Replies : Stage2Return(c, replies)
  \/ \E c \in Calls, response \in Outcomes(ChairmanTexts) : Stage3Return(c, response)

ConcurrentSpec == ConcurrentInit /\ [][ConcurrentNext]_vars

\* C33: two answer_question calls running at once on one CouncilService
\* share no mutable state: under every interleaving the answers, labels and
\* rankings a call holds are those of its own question and its own
\* backends' replies, what it returns is what these alone determine, the
\* attributes of the service never change, and nothing of a call is left
\* once it has returned.
C33_CallsShareNothing ==
  /\ council_service = NewCouncilService
  /\ \A c \in Calls :
       /\ tasks[c].pc \in {"round1", "round2", "round3"} =>
            frames[Frame(c)] = tasks[c].own
       /\ tasks[c].pc = "done" => tasks[c].result = tasks[c].expected
       /\ tasks[c].pc \in {"idle", "done"} => frames[Frame(c)] = NoFrame

\* Both calls are between stage 2 and stage 3 at once, with different
\* answers from their backends.
C33_Witness ==
  /\ tasks["first"].pc = "round3"
  /\ tasks["second"].pc = "round3"
  /\ tasks["first"].own.stage1_results # tasks["second"].own.stage1_results
  /\ tasks["first"].own.question # tasks["second"].own.question

\* ================================================ sending the reply

\* What client.send_text_message comes to, and supabase_service.log_query.
SendOutcomes == {"sent", "GreenAPIQuotaExceededError", "Exception"}

LogOutcomes == {"logged", "Exception"}

\* user_text = None
NoUserText == <<"None">>

QuotaMark == "[not sent: monthly quota reached]"

SendErrorMark == "[error sending the message]"

\* (variant: an exception other than the quota error is raised again)
SendAttemptReraising(outcome) ==
  CASE outcome = "sent" ->
         [send_success |-> TRUE, error_type |-> "None", raised |-> FALSE]
    [] outcome = "GreenAPIQuotaExceededError" ->
         [send_success |-> FALSE, error_type |-> "quota_exceeded", raised |-> FALSE]
    [] OTHER ->
         [send_success |-> FALSE, error_type |-> "send_error", raised |-> TRUE]

\* the try statement around client.send_text_message
SendAttempt(outcome) ==
  CASE outcome = "sent" ->
         [send_success |-> TRUE, error_type |-> "None", raised |-> FALSE]
    [] outcome = "GreenAPIQuotaExceededError" ->
         [send_success |-> FALSE, error_type |-> "quota_exceeded", raised |-> FALSE]
    [] OTHER ->
         [send_success |-> FALSE, error_type |-> "send_error", raised |-> FALSE]

\* response_text of the log: the message, with a note when it was not sent
LoggedResponseText(message, attempt) ==
  IF ~attempt.send_success
    THEN IF attempt.error_type = "quota_exceeded"
           THEN message \o <<QuotaMark>>
           ELSE message \o <<SendErrorMark>>
    ELSE message

\* send_message_with_error_handling: whether it raises, the messages it
\* hands to the client and the log_query calls it makes
SendMessageWithErrorHandling(send, log, message, supabase_service, user_text, intent, intent_params) ==
  LET attempt == SendAttempt(send)
  IN [raised |-> attempt.raised,
      send_text_message |-> <<message>>,
      log_query |->
        IF ~attempt.raised /\ supabase_service
           /\ user_text # NoUserText /\ Truthy(user_text)
          THEN <<[user_text |-> user_text,
                  intent |-> IF intent = "None" THEN "unknown" ELSE intent,
                  parameters |-> intent_params,
                  response_text |-> LoggedResponseText(message, attempt),
                  outcome |-> log]>>
          ELSE <<>>]

SendInputs ==
  [send : SendOutcomes, log : LogOutcomes,
   message : {<<"hello">>, <<"hello", SendErrorMark>>},
   supabase_service : BOOLEAN,
   user_text : {NoUserText, <<>>, <<"shalom">>},
   intent : {"None", "llm_analysis"},
   intent_params : {NoParams}]

SendInit ==
  /\ CouncilIdle
  /\ EngineIdle
  /\ fpc = "called"
  /\ args \in SendInputs
  /\ ret = <<>>

\* send_message_with_error_handling runs to its end.
SendReturn ==
  /\ fpc = "called"
  /\ fpc' = "returned"
  /\ ret' = SendMessageWithErrorHandling(args.send, args.log, args.message,
                                         args.supabase_service, args.user_text,
                                         args.intent, args.intent_params)
  /\ UNCHANGED <<args, cvars, svars>>

SendNext == SendReturn

SendSpec == SendInit /\ [][SendNext]_vars

\* C34: send_message_with_error_handling never raises, whether the client
\* sends the message, fails with the quota error or fails with another
\* exception, and whether log_query succeeds or fails; it hands the message
\* to the client once; when a logging service and a user text are given it
\* calls log_query exactly once, and otherwise not at all; and the logged
\* response text is the message followed by a note exactly when the
\* sending failed, and the message itself when it succeeded.
C34_SendNeverRaises ==
  fpc = "returned" =>
    /\ ~ret.raised
    /\ ret.send_text_message = <<args.message>>
    /\ Len(ret.log_query) =
         (IF args.supabase_service /\ args.user_text \notin {NoUserText, <<>>}
            THEN 1 ELSE 0)
    /\ \A k \in 1..Len(ret.log_query) :
         /\ ret.log_query[k].user_text = args.user_text
         /\ args.send = "sent" <=> ret.log_query[k].response_text = args.message
         /\ args.send # "sent" <=>
              /\ Len(ret.log_query[k].response_text) = Len(args.message) + 1
              /\ SubSeq(ret.log_query[k].response_text, 1, Len(args.message))
                   = args.message
              /\ ret.log_query[k].response_text[Len(args.message) + 1]
                   \in {QuotaMark, SendErrorMark}
         /\ args.send = "GreenAPIQuotaExceededError" <=>
              ret.log_query[k].response_text = args.message \o <<QuotaMark>>

\* The sending failed with an exception other than the quota error, the
\* logging failed too, and the function has returned.
C34_Witness ==
  /\ fpc = "returned"
  /\ args.send = "Exception"
  /\ args.log = "Exception"
  /\ ~ret.raised
  /\ Len(ret.log_query) = 1
  /\ ret.log_query[1].outcome = "Exception"

\* ------------------------------------------------- the text that comes back

\* C37: when round 1 has given at least one answer, the text that
\* answer_question returns is not empty after trimming, whatever the
\* chairman call comes to.
C37_AnswerNeverBlank ==
  (pc = "done" /\ Survivors # {}) => Truthy(Strip(result))

\* What holds of C37: the returned text is blank only when the chairman's
\* content is whitespace, or when the chairman gave nothing usable and the
\* first round-1 answer is whitespace.
C37_BlankOnlyFromWhitespace ==
  (pc = "done" /\ Survivors # {}) =>
    (~Truthy(Strip(result)) <=>
       \/ Usable(r3) /\ ~Truthy(Strip(r3.content))
       \/ ~Usable(r3) /\ ~Truthy(Strip(stage1_results[1].response)))

\* ================================================== the webhook's gate
\*
\* handle_webhook (routes/webhook.py) from the request to its answer: the
\* authorization test, the tests of the payload, the engine's Command, the
\* response text of the branch and the message handed to the background
\* tasks.
\*
\*   In a header " " is one space character.  <<>> is the header that is
\*   missing or empty, and the token that is not configured (both are
\*   falsy in the code's tests).

\* str.partition(" "): the part before the first space and the part after
Partition(s) ==
  IF \E k \in 1..Len(s) : s[k] = " "
    THEN [scheme |-> SubSeq(s, 1, (CHOOSE i \in 1..Len(s) :
                                     s[i] = " " /\ \A j \in 1..(i - 1) : s[j] # " ") - 1),
          token |-> SubSeq(s, (CHOOSE i \in 1..Len(s) :
                                 s[i] = " " /\ \A j \in 1..(i - 1) : s[j] # " ") + 1,
                           Len(s))]
    ELSE [scheme |-> s, token |-> <<>>]

\* the token a header presents: what follows "bearer ", or else the whole
\* header trimmed
Provided(authorization) ==
  IF [k \in 1..Len(Partition(authorization).scheme) |->
        Lower(Partition(authorization).scheme[k])] = <<"bearer">>
    THEN Partition(authorization).token
    ELSE Strip(authorization)

\* the authorization test passes for every header
AuthorizedAlways(webhook_token, authorization) == TRUE

\* the authorization test of handle_webhook: passed, or 401
Authorized(webhook_token, authorization) ==
  IF Truthy(webhook_token)
    THEN Truthy(authorization) /\ Provided(authorization) = webhook_token
    ELSE TRUE

\* the parts of a payload that are absent
NoTextMessageData == [textMessage |-> <<"None">>]
NoMessageData == [typeMessage |-> "None", textMessageData |-> NoTextMessageData]
NoSenderData == [chatId |-> "None"]

\* the text handle_webhook goes on with, <<>> for a webhook it ignores
IncomingText(payload) ==
  IF payload.typeWebhook # "incomingMessageReceived" THEN <<>>
  ELSE IF payload.messageData = NoMessageData \/ payload.senderData = NoSenderData
    THEN <<>>
  ELSE IF Lower(payload.messageData.typeMessage)
            \notin {"textmessage", "extendedtextmessage"}
    THEN <<>>
  ELSE IF payload.messageData.textMessageData = NoTextMessageData THEN <<>>
  ELSE payload.messageData.textMessageData.textMessage

\* ---------------------------------------------------- the response text

\*   lo-matsati לא מצאתי   each build_*_response is one word standing for
\*   the builder's sentence; the " " after the greeting is its newline

GreetingText == "shalom-ani-bot-nemali"

FallbackResponse == <<"build_fallback_response">>

StatusUnavailable == <<"sherut-bdikat-hastatus-eino-zamin">>

\* the reply of the LLM service a branch asks: the Council if there is
\* one, else Gemini
LlmReply(services, replies) ==
  IF services.council THEN replies.council ELSE replies.gemini

\* a branch's end: the response text it leaves, or the exception that
\* leaves handle_webhook (500 for any, 501 for the HTTPException of the
\* last else)
Responded(response_text) == [status |-> 202, response_text |-> response_text]

Escaped(status) == [status |-> status, response_text |-> <<>>]

\* the llm_analysis branch (webhook.py 489-516): no try, and the test of
\* the text is "not response_text"
LlmAnalysisResponse(services, replies) ==
  IF ~(services.council \/ services.gemini) THEN Responded(FallbackResponse)
  ELSE IF Raised(LlmReply(services, replies)) THEN Escaped(500)
  ELSE IF ~Truthy(LlmReply(services, replies).content)
    THEN Responded(FallbackResponse)
  ELSE Responded(LlmReply(services, replies).content)

\* the Unstructured branch (webhook.py 342-392): the calls are in a try and
\* a text that is empty or whitespace gives way to the fallback
UnstructuredResponse(services, replies) ==
  IF ~(services.council \/ services.gemini) THEN Responded(FallbackResponse)
  ELSE IF Raised(LlmReply(services, replies))
    THEN Responded(FallbackResponse)
  ELSE IF ~Truthy(Strip(LlmReply(services, replies).content))
    THEN Responded(FallbackResponse)
  ELSE Responded(LlmReply(services, replies).content)

\* the containers_count_monthly branch (webhook.py 423-466): a count of 0
\* is checked with the LLM service, with no try
MonthlyResponse(services, replies, store) ==
  IF GetContainersCountMonthly(store) = 0 /\ (services.council \/ services.gemini)
    THEN IF Raised(LlmReply(services, replies)) THEN Escaped(500)
         ELSE IF /\ Truthy(LlmReply(services, replies).content)
                 /\ \A k \in 1..Len(LlmReply(services, replies).content) :
                      LlmReply(services, replies).content[k] # "lo-matsati"
           THEN Responded(LlmReply(services, replies).content)
         ELSE Responded(<<"build_monthly_containers_response">>)
    ELSE Responded(<<"build_monthly_containers_response">>)

\* the manager_question branch (webhook.py 525-538)
ManagerResponse(services, replies) ==
  IF ~services.manager_gpt THEN Responded(FallbackResponse)
  ELSE IF Raised(replies.manager) THEN Responded(FallbackResponse)
  ELSE IF ~Truthy(Strip(replies.manager.content)) THEN Responded(FallbackResponse)
  ELSE Responded(replies.manager.content)

\* response_text at the end of handle_webhook's branch (webhook.py 342-618)
WebhookResponse(intent, services, replies, store) ==
  IF intent = None THEN UnstructuredResponse(services, replies)
  ELSE IF intent.name = "daily_containers_count"
    THEN Responded(<<"build_daily_containers_response">>)
  ELSE IF intent.name = "containers_count_between"
    THEN Responded(<<"build_containers_range_response">>)
  ELSE IF intent.name = "vehicles_count_between"
    THEN Responded(<<"build_vehicles_range_response">>)
  ELSE IF intent.name = "containers_count_monthly"
    THEN MonthlyResponse(services, replies, store)
  ELSE IF intent.name = "containers_count_comparison"
    THEN Responded(<<"build_comparison_containers_response">>)
  ELSE IF intent.name = "llm_analysis"
    THEN LlmAnalysisResponse(services, replies)
  ELSE IF intent.name = "container_status_lookup"
    THEN IF services.container_status
           THEN Responded(<<"build_container_status_response">>)
           ELSE Responded(StatusUnavailable)
  ELSE IF intent.name = "manager_question"
    THEN ManagerResponse(services, replies)
  ELSE IF intent.name = "monthly_containers_graph"
    THEN Responded(<<"graph-response">>)
  ELSE IF intent.name = "procedure_question"
    THEN Responded(<<"notebooklm-response">>)
  ELSE Escaped(501)

\* _should_add_greeting: no earlier turn, or the last one is more than an
\* hour old
ShouldAddGreeting(conversation_history) ==
  IF ~Truthy(conversation_history) THEN TRUE
  ELSE conversation_history[Len(conversation_history)] = "old-turn"

\* _maybe_prefix_greeting
MaybePrefixGreeting(response_text, conversation_history) ==
  IF ShouldAddGreeting(conversation_history)
    THEN <<GreetingText, " ">> \o response_text
    ELSE response_text

\* ------------------------------------------------- the request's answer

\* What handle_webhook has done when it answers: the status, the texts it
\* gave to intent_engine.match, the calls it made to the services behind
\* it, and the messages it handed to the background tasks.
Answer(status, match, calls, add_task) ==
  [status |-> status, match |-> match, calls |-> calls, add_task |-> add_task]

NotAnswered == Answer(0, <<>>, <<>>, <<>>)

\* handle_webhook from the engine's answer on (webhook.py 307-641)
Respond(intent, incoming_text, chat_id, services, replies, store) ==
  Answer(WebhookResponse(intent, services, replies, store).status,
         <<incoming_text>>,
         <<Call("supabase_service.get_recent_user_queries",
                [user_phone |-> chat_id])>>
           \o WebhookDispatch(intent, incoming_text, services,
                              GetRecentUserQueries(store), store).calls,
         IF WebhookResponse(intent, services, replies, store).status = 202
           THEN <<[chat_id |-> chat_id,
                   message |->
                     MaybePrefixGreeting(
                       WebhookResponse(intent, services, replies, store).response_text,
                       GetRecentUserQueries(store)),
                   user_text |-> incoming_text,
                   intent |-> intent.name]>>
           ELSE <<>>)

\* handle_webhook on a request
HandleWebhookRequest(webhook_token, authorization, payload, today, services, replies, store) ==
  IF ~Authorized(webhook_token, authorization)
    THEN Answer(401, <<>>, <<>>, <<>>)
  ELSE IF ~Truthy(IncomingText(payload))
    THEN Answer(204, <<>>, <<>>, <<>>)
  ELSE
    CHOOSE answer \in
      { Respond(intent, incoming_text, payload.senderData.chatId, services,
                replies, store) :
          <<incoming_text, intent>> \in
            { <<mapped, Match(mapped, today).value>> :
                mapped \in { IF Truthy(SweTemplateMap(Strip(IncomingText(payload))))
                               THEN SweTemplateMap(Strip(IncomingText(payload)))
                               ELSE IncomingText(payload) } } } :
      TRUE

\* An incoming message of the given type with the given text.
TextPayload(typeMessage, text) ==
  [typeWebhook |-> "incomingMessageReceived",
   messageData |-> [typeMessage |-> typeMessage,
                    textMessageData |-> [textMessage |-> text]],
   senderData |-> [chatId |-> "972500000000@c.us"]]

\* A payload of each kind the tests tell apart.
GatePayloads ==
  { TextPayload("textMessage", <<"shalom">>),
    TextPayload("extendedTextMessage", <<"shalom">>),
    TextPayload("imageMessage", <<"shalom">>),
    TextPayload("textMessage", <<>>),
    TextPayload("textMessage", <<" ">>),
    [TextPayload("textMessage", <<"shalom">>)
       EXCEPT !.messageData.textMessageData = NoTextMessageData],
    [TextPayload("textMessage", <<"shalom">>) EXCEPT !.messageData = NoMessageData],
    [TextPayload("textMessage", <<"shalom">>) EXCEPT !.senderData = NoSenderData],
    [TextPayload("textMessage", <<"shalom">>)
       EXCEPT !.typeWebhook = "outgoingMessageStatus"],
    [TextPayload("textMessage", <<"shalom">>)
       EXCEPT !.typeWebhook = "stateInstanceChanged",
              !.messageData = NoMessageData, !.senderData = NoSenderData] }

WebhookTokens == { <<>>, <<"tok">> }

Authorizations ==
  { <<>>, <<"Bearer", " ", "tok">>, <<"bearer", " ", "tok">>, <<"tok">>,
    <<" ", "tok">>, <<"Bearer", " ", "bad">>, <<"bad">>, <<"Bearer">>,
    <<"Basic", " ", "tok">>, <<"Bearer", " ", " ", "tok">> }

\* A message for every branch of handle_webhook.
BranchTexts ==
  { <<" ">>, <<"shalom">>, <<"{{SWE001}}">>, <<"mekholot">>, <<"nituakh">>,
    <<"nehalim">>, <<"ani", "menahel">>, <<"kama", "mekholot", "hayom">>,
    <<"kama", "mekholot", "bein", "1.2.24", "ad", "15.3.24">>,
    <<"kama", "rekhavim", "bein", "1.2.24", "ad", "15.3.24">>,
    <<"kama", "mekholot", "bfebruar", "2024">>,
    <<"kama", "mekholot", "byanuar", "2024", "leumat", "februar", "2025">>,
    <<"MSCU1234567">> }

\* What the LLM services come back with.  answer_question of the Council
\* returns a text, which may be empty or whitespace; Gemini's returns a
\* trimmed text or raises; the manager service's returns a text or raises.
\* One request asks one of them, so one of them at a time departs from a
\* plain answer.
PlainReplies ==
  [council |-> Reply(<<"answer">>), gemini |-> Reply(<<"answer">>),
   manager |-> Reply(<<"answer">>)]

LlmReplies ==
  { [PlainReplies EXCEPT !.council = Reply(text)] :
      text \in {<<"answer">>, <<>>, <<" ">>, <<"lo-matsati">>} }
  \cup { [PlainReplies EXCEPT !.gemini = reply] :
           reply \in {Failure("raised"), Reply(<<>>)} }
  \cup { [PlainReplies EXCEPT !.manager = reply] :
           reply \in {Failure("raised"), Reply(<<" ">>)} }

\* The store's replies, the last earlier turn recent or more than an hour
\* old.
ChatStores == [history : {<<>>, <<"turn">>, <<"old-turn">>}, count : {0, 3}]

AllServices ==
  [council |-> TRUE, gemini |-> TRUE, container_status |-> TRUE,
   manager_gpt |-> TRUE]

WebhookInputs ==
  [webhook_token : WebhookTokens, authorization : Authorizations,
   payload : GatePayloads, today : {[year |-> 2026, month |-> 11, day |-> 2]},
   services : {AllServices}, replies : {PlainReplies},
   store : {[history |-> <<"turn">>, count |-> 3]}]
  \cup
  [webhook_token : {<<"tok">>}, authorization : {<<"Bearer", " ", "tok">>},
   payload : {TextPayload("textMessage", text) : text \in BranchTexts},
   today : {[year |-> 2026, month |-> 11, day |-> 2]},
   services : ServiceSets, replies : LlmReplies, store : ChatStores]

WebhookInit ==
  /\ CouncilIdle
  /\ EngineIdle
  /\ fpc = "called"
  /\ args \in WebhookInputs
  /\ ret = NotAnswered

\* handle_webhook answers the request.
WebhookAnswer ==
  /\ fpc = "called"
  /\ fpc' = "returned"
  /\ ret' = HandleWebhookRequest(args.webhook_token, args.authorization,
                                 args.payload, args.today, args.services,
                                 args.replies, args.store)
  /\ UNCHANGED <<args, cvars, svars>>

WebhookNext == WebhookAnswer

WebhookSpec == WebhookInit /\ [][WebhookNext]_vars

\* the headers that carry the configured token "tok": after "Bearer " in
\* either case, or bare
MatchingHeaders ==
  { <<"Bearer", " ", "tok">>, <<"bearer", " ", "tok">>, <<"tok">>, <<" ", "tok">> }

\* a token is configured and the header is missing or does not match it
Unauthorised ==
  args.webhook_token = <<"tok">> /\ args.authorization \notin MatchingHeaders

\* the webhook is not an incoming text message with a text
NotIncomingText ==
  \/ args.payload.typeWebhook # "incomingMessageReceived"
  \/ args.payload.messageData = NoMessageData
  \/ args.payload.senderData = NoSenderData
  \/ args.payload.messageData.typeMessage \notin {"textMessage", "extendedTextMessage"}
  \/ args.payload.messageData.textMessageData = NoTextMessageData
  \/ args.payload.messageData.textMessageData.textMessage = <<>>

\* C35: handle_webhook answers 401 when a token is configured and the
\* Authorization header is missing or does not match it; otherwise it
\* answers 204 for a webhook that is not incomingMessageReceived, that lacks
\* message or sender data, whose message type is not text or whose text is
\* empty; in all these cases it has not called the engine, has called no
\* backend and has queued no message.  So whatever it has called or queued,
\* the request was authorised and an incoming text message with a text.
C35_OnlyAuthorisedText ==
  fpc = "returned" =>
    /\ Unauthorised => ret = Answer(401, <<>>, <<>>, <<>>)
    /\ (~Unauthorised /\ NotIncomingText) => ret = Answer(204, <<>>, <<>>, <<>>)
    /\ (ret.match # <<>> \/ ret.calls # <<>> \/ ret.add_task # <<>>) =>
         ~Unauthorised /\ ~NotIncomingText

\* A text message that every test of the payload lets through has come
\* with a wrong token, and has been answered 401 with nothing called.
C35_Witness ==
  /\ fpc = "returned"
  /\ args.webhook_token = <<"tok">>
  /\ args.authorization = <<"Bearer", " ", "bad">>
  /\ args.payload = TextPayload("textMessage", <<"shalom">>)
  /\ ret = Answer(401, <<>>, <<>>, <<>>)

\* C36: for every authorised incoming text message with a non-empty text,
\* handle_webhook answers 202 and has queued exactly one message, to the
\* sender's chat, whose text is not empty and not whitespace only.
C36_OneMessageQueued ==
  (fpc = "returned" /\ ~Unauthorised /\ ~NotIncomingText) =>
    /\ ret.status = 202
    /\ Len(ret.add_task) = 1
    /\ \A k \in 1..Len(ret.add_task) :
         /\ ret.add_task[k].chat_id = args.payload.senderData.chatId
         /\ Truthy(Strip(ret.add_task[k].message))

\* What holds of C36: the answer is 202 with one message that is not blank,
\* except in the llm_analysis branch and in the monthly branch with a count
\* of 0, when an LLM service is there and its call raises, or returns
\* whitespace and no greeting is put before it.
C36_FailsOnlyUnguarded ==
  (fpc = "returned" /\ ~Unauthorised /\ ~NotIncomingText) =>
    ( ~C36_OneMessageQueued <=>
        /\ \/ ret.calls[Len(ret.calls)].to
                \in {"council_service.answer_question",
                     "gemini_service.answer_question"}
        /\ \E k \in 1..Len(ret.calls) :
             \/ ret.calls[k].to = "supabase_service.get_containers_count_monthly"
             \/ /\ Match(ret.match[1], args.today).value.name = "llm_analysis"
        /\ \/ Raised(LlmReply(args.services, args.replies))
           \/ /\ Truthy(LlmReply(args.services, args.replies).content)
              /\ ~Truthy(Strip(LlmReply(args.services, args.replies).content))
              /\ ~ShouldAddGreeting(args.store.history) )

====
